---- MODULE Spec2Model ----
(***************************************************************************)
(* A model of zenvo: the env.lock snapshot store (src/lockfile/mod.rs),    *)
(* the repair planner and executor (src/repair/mod.rs), the toolchain      *)
(* checks that feed them (src/checks/toolchain.rs) and the two callers     *)
(* that apply a plan (src/commands/repair.rs, src/mcp/handlers.rs).        *)
(*                                                                         *)
(* Text is modelled as a sequence of tokens.  A version string is a        *)
(* sequence of one-character strings, so that parsing is computed.  A      *)
(* command, a fix text or an output line is a sequence of words.           *)
(* An Option is a sequence of length 0 (None) or 1 (Some).                 *)
(***************************************************************************)
EXTENDS Integers, Sequences, FiniteSets, TLC

VARIABLES
    piped,          \* run_command_with_timeout with the pipes of its child: the child, what the pipes hold, the seconds waited and the result
    server,         \* the MCP server process: its working directory and the tool calls it answered
    searching,      \* the resolution search: the conflict, the registry document and the two answers
    verifying,      \* zenvo verify: its flags, the configuration file, the findings and the exit status
    configured,     \* apply_config_to_results: the findings, the configuration and what comes back
    launched,       \* an external command: the call site, the child process and the wait on it
    saving,         \* EnvLock::save: the file at the target path and how far the write has come
    hashing,        \* the installed tree, the last directory listings and the hashes computed
    ranges,         \* the range check: a version, a range and what the two resolvers answer
    parser,         \* the conflict parser: its input, the lines left and its locals
    project,        \* the working directory and the tools on PATH
    envLockFile,    \* the env.lock file in the working directory
    loadResult,     \* what the last snapshot-store call returned
    issues,         \* the findings handed to the planner
    context,        \* the RepairContext handed to the planner
    procEnv,        \* environment variables and platform of the process
    plan,           \* Option: the plan the planner returned
    action,         \* the RepairAction handed to the executor
    outcome,        \* what the spawned shell does: exit status and streams
    execResult,     \* Option: what execute_repair returned
    caller,         \* who applies the plan, and with which flags
    results,        \* Option: what run_all_checks returns to the caller
    pc,             \* where the caller is
    idx,            \* position in the plan of the next action
    executed,       \* descriptions of the actions that ran and succeeded
    skipped,        \* descriptions of the actions not run
    failed,         \* the actions that ran and failed, with the error
    log             \* history: one entry per loop iteration, in order

vars == <<piped, server, searching, verifying, configured, launched, saving, hashing, ranges, parser, project, envLockFile, loadResult, issues, context, procEnv, plan, action, outcome, execResult,
          caller, results, pc, idx, executed, skipped, failed, log>>

resolveVars == <<parser>>
rangeVars == <<ranges>>
hashVars == <<hashing>>
saveVars == <<saving>>
commandVars == <<launched>>
configVars == <<configured>>
verifyVars == <<verifying>>
searchVars == <<searching>>
serverVars == <<server>>
pipeVars == <<piped>>
projectVars == <<project>>
schemaVars == <<envLockFile, loadResult>>
planVars == <<issues, context, procEnv, plan>>
execVars == <<action, outcome, execResult>>
applyVars == <<caller, results, pc, idx, executed, skipped, failed, log>>

None == <<>>
Some(x) == <<x>>
IsSome(o) == Len(o) = 1
Unwrap(o) == o[1]

\* The element of a one-element set.  The({e(v) : v \in {x}}) is e(x) with x
\* evaluated once, however often e uses it.
The(S) == CHOOSE x \in S : TRUE

\* All sequences over S of length 0..n
RECURSIVE SeqsUpTo(_, _)
SeqsUpTo(S, n) ==
    IF n = 0 THEN {<<>>}
    ELSE LET shorter == SeqsUpTo(S, n - 1)
         IN  shorter \cup {Append(s, x) : s \in {t \in shorter : Len(t) = n - 1}, x \in S}

Whitespace == {" ", "\n", "\t", "\r"}

\* str::trim on a character sequence
RECURSIVE TrimStart(_)
TrimStart(cs) ==
    The({IF t # <<>> /\ t[1] \in Whitespace THEN TrimStart(Tail(t)) ELSE t : t \in {cs}})

RECURSIVE TrimEnd(_)
TrimEnd(cs) ==
    The({IF t # <<>> /\ t[Len(t)] \in Whitespace THEN TrimEnd(SubSeq(t, 1, Len(t) - 1)) ELSE t :
             t \in {cs}})

Trim(cs) == TrimEnd(TrimStart(cs))

(***************************************************************************)
(* Schema versions: src/lockfile/mod.rs                                    *)
(***************************************************************************)

\* Longest version string written into metadata.version
MaxVersionLen == 3

VersionChars == {"0", "1", "2", "+", ".", "x"}

IsDigit(c) == c \in {"0", "1", "2", "3", "4", "5", "6", "7", "8", "9"}

DigitValue(c) ==
    CASE c = "0" -> 0 [] c = "1" -> 1 [] c = "2" -> 2 [] c = "3" -> 3 [] c = "4" -> 4
      [] c = "5" -> 5 [] c = "6" -> 6 [] c = "7" -> 7 [] c = "8" -> 8 [] c = "9" -> 9

CURRENT_SCHEMA_VERSION == <<"1", ".", "0">>

MIN_SUPPORTED_SCHEMA_VERSION == <<"1", ".", "0">>

\* str::split('.'): the pieces between the separators, empty pieces kept
RECURSIVE SplitOn(_, _)
SplitOn(s, sep) ==
    The({IF \A i \in 1..Len(cs) : cs[i] # sep THEN <<cs>>
         ELSE The({<<SubSeq(cs, 1, k - 1)>> \o SplitOn(SubSeq(cs, k + 1, Len(cs)), sep) :
                      k \in {CHOOSE i \in 1..Len(cs) :
                                  cs[i] = sep /\ \A j \in 1..(i - 1) : cs[j] # sep}}) :
             cs \in {s}})

RECURSIVE DecimalValue(_)
DecimalValue(ds) ==
    The({IF cs = <<>> THEN 0
         ELSE 10 * DecimalValue(SubSeq(cs, 1, Len(cs) - 1)) + DigitValue(cs[Len(cs)]) :
             cs \in {ds}})

\* <u32 as FromStr>::from_str: an optional leading '+', then one or more
\* digits, the value below 2^32.  Up to nine digits always fit; a longer
\* digit string is reported as overflow (the model writes none).
ParseU32(p) ==
    The({IF digits = <<>> \/ \E i \in 1..Len(digits) : ~IsDigit(digits[i]) THEN None
         ELSE IF Len(digits) > 9 THEN None
         ELSE Some(DecimalValue(digits)) :
             digits \in {The({IF cs # <<>> /\ cs[1] = "+" THEN Tail(cs) ELSE cs : cs \in {p}})}})

\* the closure parse_version of validate_schema_version
parse_version(v) ==
    LET parts == SplitOn(v, ".")
    IN  IF Len(parts) # 2 THEN None
        ELSE IF ~IsSome(ParseU32(parts[1])) \/ ~IsSome(ParseU32(parts[2])) THEN None
        ELSE Some(<<Unwrap(ParseU32(parts[1])), Unwrap(ParseU32(parts[2]))>>)

\* (u32, u32) < (u32, u32)
TupleLess(a, b) == a[1] < b[1] \/ (a[1] = b[1] /\ a[2] < b[2])

Status(kind) == [kind |-> kind]

\* validate_schema_version with the TooNew test widened to >=
validate_schema_version_ge(version) ==
    LET current == parse_version(CURRENT_SCHEMA_VERSION)
        minimum == parse_version(MIN_SUPPORTED_SCHEMA_VERSION)
        file_version == parse_version(version)
    IN  IF ~IsSome(current) THEN Status("Invalid")
        ELSE IF ~IsSome(minimum) THEN Status("Invalid")
        ELSE IF ~IsSome(file_version) THEN Status("Invalid")
        ELSE IF Unwrap(file_version)[1] >= Unwrap(current)[1] THEN Status("TooNew")
        ELSE IF TupleLess(Unwrap(file_version), Unwrap(minimum)) THEN Status("TooOld")
        ELSE IF Unwrap(file_version) = Unwrap(current) THEN Status("Current")
        ELSE Status("Supported")

validate_schema_version(version) ==
    LET current == parse_version(CURRENT_SCHEMA_VERSION)
        minimum == parse_version(MIN_SUPPORTED_SCHEMA_VERSION)
        file_version == parse_version(version)
    IN  IF ~IsSome(current) THEN Status("Invalid")
        ELSE IF ~IsSome(minimum) THEN Status("Invalid")
        ELSE IF ~IsSome(file_version) THEN Status("Invalid")
        ELSE IF Unwrap(file_version)[1] > Unwrap(current)[1] THEN Status("TooNew")
        ELSE IF TupleLess(Unwrap(file_version), Unwrap(minimum)) THEN Status("TooOld")
        ELSE IF Unwrap(file_version) = Unwrap(current) THEN Status("Current")
        ELSE Status("Supported")

\* SchemaVersionStatus::is_loadable
is_loadable(status) == status.kind \in {"Current", "Supported"}

\* Toolchain of an EnvLock
Toolchain(node, source, pm, pm_version) ==
    [node |-> node, node_version_source |-> source, package_manager |-> pm,
     package_manager_version |-> pm_version]

\* An EnvLock value: metadata.version and the toolchain section
EnvLock(version, toolchain) == [version |-> version, toolchain |-> toolchain]

\* EnvLock::validate_schema that lets a TooOld file through
validate_schema_old_ok(lock) ==
    LET status == validate_schema_version(lock.version)
    IN  IF status.kind \in {"Current", "Supported", "TooOld"} THEN [ok |-> TRUE, status |-> status, err |-> ""]
        ELSE [ok |-> FALSE, status |-> status, err |-> status.kind]

\* EnvLock::validate_schema: Ok(status) or the error of the bail! taken
validate_schema(lock) ==
    LET status == validate_schema_version(lock.version)
    IN  CASE status.kind = "Current" -> [ok |-> TRUE, status |-> status, err |-> ""]
          [] status.kind = "Supported" -> [ok |-> TRUE, status |-> status, err |-> ""]
          [] status.kind = "TooOld" -> [ok |-> FALSE, status |-> status, err |-> "too old"]
          [] status.kind = "TooNew" -> [ok |-> FALSE, status |-> status, err |-> "too new"]
          [] status.kind = "Invalid" -> [ok |-> FALSE, status |-> status, err |-> "invalid"]

\* The file env.lock: missing, unreadable, not an EnvLock document, or a
\* document with its metadata.version and toolchain.node
FileMissing == [state |-> "missing", lock |-> None]
FileUnreadable == [state |-> "unreadable", lock |-> None]
FileMalformed == [state |-> "malformed", lock |-> None]
FileDocument(lock) == [state |-> "document", lock |-> Some(lock)]

LockedToolchain == Toolchain("20.11.0", None, "npm", "10.2.4")

EnvLockFiles ==
    {FileMissing, FileUnreadable, FileMalformed}
        \cup {FileDocument(EnvLock(v, LockedToolchain)) : v \in SeqsUpTo(VersionChars, MaxVersionLen)}

Ok(op, value) == [op |-> op, ok |-> TRUE, value |-> value, err |-> ""]
Err(op, err) == [op |-> op, ok |-> FALSE, value |-> None, err |-> err]
NotCalled == [op |-> "none", ok |-> FALSE, value |-> None, err |-> ""]

\* EnvLock::load
load(file) ==
    IF file.state = "missing" THEN Err("load", "env.lock not found")
    ELSE IF file.state = "unreadable" THEN Err("load", "Failed to read env.lock")
    ELSE IF file.state = "malformed" THEN Err("load", "Failed to parse env.lock")
    ELSE IF ~validate_schema(Unwrap(file.lock)).ok
         THEN Err("load", validate_schema(Unwrap(file.lock)).err)
    ELSE Ok("load", Some(Unwrap(file.lock)))

\* EnvLock::load_if_exists
load_if_exists(file) ==
    IF file.state = "missing" THEN Ok("load_if_exists", None)
    ELSE IF file.state = "unreadable" THEN Err("load_if_exists", "read")
    ELSE IF file.state = "malformed" THEN Err("load_if_exists", "parse")
    ELSE IF ~validate_schema(Unwrap(file.lock)).ok
         THEN Err("load_if_exists", validate_schema(Unwrap(file.lock)).err)
    ELSE Ok("load_if_exists", Some(Unwrap(file.lock)))

\* EnvLock::schema_status, on the document on disk
schema_status(lock) == validate_schema_version(lock.version)

(***************************************************************************)
(* Repair planner: src/repair/mod.rs                                       *)
(***************************************************************************)

\* Longest list of findings handed to the planner
MaxIssues == 3

\* CheckResult: name, severity, message text, Option of fix text
CheckResult(name, severity, message, fix) ==
    [name |-> name, severity |-> severity, message |-> message, suggested_fix |-> fix]

RepairAction(description, command, is_safe) ==
    [description |-> description, command |-> command, is_safe |-> is_safe]

\* RepairContext
RepairContext(pm, manager, target) ==
    [package_manager |-> pm, node_version_manager |-> manager, target_node_version |-> target]

\* str::contains on token texts: the words of `sub` occur as a run in `text`
Contains(text, sub) ==
    The({\E i \in 1..(Len(t) - Len(sub) + 1) : SubSeq(t, i, i + Len(sub) - 1) = sub :
             t \in {text}})

\* RepairContext::install_command
install_command(ctx) ==
    CASE ctx.package_manager = "pnpm" -> <<"pnpm", "install", "--frozen-lockfile">>
      [] ctx.package_manager = "yarn" -> <<"yarn", "install", "--frozen-lockfile">>
      [] ctx.package_manager = "bun" -> <<"bun", "install", "--frozen-lockfile">>
      [] OTHER -> <<"npm", "ci">>

\* RepairContext::install_command_no_frozen
install_command_no_frozen(ctx) ==
    CASE ctx.package_manager = "pnpm" -> <<"pnpm", "install">>
      [] ctx.package_manager = "yarn" -> <<"yarn", "install">>
      [] ctx.package_manager = "bun" -> <<"bun", "install">>
      [] OTHER -> <<"npm", "install">>

\* RepairContext::node_switch_command
node_switch_command(ctx, version) ==
    CASE ctx.node_version_manager = Some("volta") -> <<"volta", "pin", "node@", version>>
      [] ctx.node_version_manager = Some("fnm") -> <<"fnm", "use", version>>
      [] ctx.node_version_manager = Some("nvm") -> <<"nvm", "use", version>>
      [] OTHER -> <<"nvm", "use", version, "(", "or", "volta", "pin", "node@", version,
                    "/", "fnm", "use", version, ")">>

\* RepairContext::clear_cache_commands with bun's entry no longer marked manual
clear_cache_commands_unmarked(ctx) ==
    CASE ctx.package_manager = "pnpm" ->
             <<[desc |-> <<"Clear", "pnpm", "cache">>, cmd |-> <<"pnpm", "store", "prune">>]>>
      [] ctx.package_manager = "yarn" ->
             <<[desc |-> <<"Clear", "yarn", "cache">>, cmd |-> <<"yarn", "cache", "clean">>]>>
      [] ctx.package_manager = "bun" ->
             <<[desc |-> <<"Clear", "bun", "cache">>,
                cmd |-> <<"rm", "-rf", "~/.bun/install/cache">>]>>
      [] OTHER ->
             <<[desc |-> <<"Clear", "npm", "cache">>,
                cmd |-> <<"npm", "cache", "clean", "--force">>]>>

\* RepairContext::clear_cache_commands: (description, command) pairs
clear_cache_commands(ctx) ==
    CASE ctx.package_manager = "pnpm" ->
             <<[desc |-> <<"Clear", "pnpm", "cache">>, cmd |-> <<"pnpm", "store", "prune">>]>>
      [] ctx.package_manager = "yarn" ->
             <<[desc |-> <<"Clear", "yarn", "cache">>, cmd |-> <<"yarn", "cache", "clean">>]>>
      [] ctx.package_manager = "bun" ->
             <<[desc |-> <<"Clear", "bun", "cache", "(", "manual", ")">>,
                cmd |-> <<"rm", "-rf", "~/.bun/install/cache">>]>>
      [] OTHER ->
             <<[desc |-> <<"Clear", "npm", "cache">>,
                cmd |-> <<"npm", "cache", "clean", "--force">>]>>

\* extract_target_version: the word after a leading "Expected "
extract_target_version(message) ==
    IF Len(message) >= 2 /\ message[1] = "Expected" THEN Some(message[2]) ELSE None

\* get_lockfile_name
get_lockfile_name(package_manager) ==
    CASE package_manager = "pnpm" -> "pnpm-lock.yaml"
      [] package_manager = "yarn" -> "yarn.lock"
      [] package_manager = "bun" -> "bun.lockb"
      [] OTHER -> "package-lock.json"

\* target_version.split('.').next(): the text before the first dot
FirstDotPart(version) ==
    CASE version = "20.11.0" -> "20"
      [] version = "16.0.0" -> "16"
      [] version = "18.17.0" -> "18"
      [] OTHER -> version

\* issue.name.replace(" accessible", "")
StripAccessible(name) ==
    CASE name = "npm accessible" -> "npm"
      [] name = "yarn accessible" -> "yarn"
      [] name = "pnpm accessible" -> "pnpm"
      [] name = "bun accessible" -> "bun"
      [] OTHER -> name


\* The "npm cache integrity" | "Cache corrupted" arm
cache_action(ctx) ==
    LET cache_cmds == clear_cache_commands(ctx)
    IN  IF cache_cmds # <<>>
        THEN Some(RepairAction(cache_cmds[1].desc, cache_cmds[1].cmd,
                               ~Contains(cache_cmds[1].desc, <<"manual">>)))
        ELSE None

\* The "Node.js accessible" arm: the install command is picked from the
\* process environment and the build platform
node_install_action(ctx) ==
    LET target_version == IF IsSome(ctx.target_node_version)
                          THEN Unwrap(ctx.target_node_version) ELSE "--lts"
        major_version == FirstDotPart(target_version)
        cmd == IF "VOLTA_HOME" \in procEnv.vars
                   THEN <<"volta", "install", "node@", target_version>>
               ELSE IF "FNM_DIR" \in procEnv.vars \/ "FNM_MULTISHELL_PATH" \in procEnv.vars
                   THEN <<"fnm", "install", target_version>>
               ELSE IF "NVM_DIR" \in procEnv.vars
                   THEN <<"nvm", "install", target_version>>
               ELSE IF procEnv.os = "windows"
                   THEN <<"winget", "install", "OpenJS.NodeJS.LTS">>
               ELSE IF procEnv.os = "macos"
                   THEN <<"brew", "install", "node@", major_version>>
               ELSE <<"curl", "-fsSL", "https://deb.nodesource.com/setup_", major_version, ".x",
                      "|", "sudo", "-E", "bash", "-", "&&",
                      "sudo", "apt-get", "install", "-y", "nodejs">>
        desc == IF target_version = "--lts"
                THEN <<"Install", "Node.js", "(", "LTS", ")">>
                ELSE <<"Install", "Node.js", target_version>>
    IN  Some(RepairAction(desc, cmd, FALSE))

\* The fallback arm, marking the generic action Safe
fallback_action_safe(issue) ==
    IF IsSome(issue.suggested_fix)
    THEN Some(RepairAction(<<issue.name>>, Unwrap(issue.suggested_fix), TRUE))
    ELSE None

\* The `_` arm: a finding with no table entry
fallback_action(issue) ==
    IF IsSome(issue.suggested_fix)
    THEN Some(RepairAction(<<issue.name>>, Unwrap(issue.suggested_fix), FALSE))
    ELSE None

\* issue_to_action_with_context: Option<RepairAction>
issue_to_action_with_context(issue, ctx) ==
    LET pm == ctx.package_manager
        name == issue.name
    IN  CASE name = "Node version match" ->
                LET target_version ==
                        IF IsSome(extract_target_version(issue.message))
                        THEN Unwrap(extract_target_version(issue.message))
                        ELSE IF IsSome(ctx.target_node_version)
                        THEN Unwrap(ctx.target_node_version)
                        ELSE "<version>"
                IN  Some(RepairAction(<<"Switch", "Node.js", "to", "version", target_version>>,
                                      node_switch_command(ctx, target_version), TRUE))
          [] name = "Package manager match" ->
                Some(RepairAction(<<"Use", "correct", "package", "manager">>,
                                  IF IsSome(issue.suggested_fix) THEN Unwrap(issue.suggested_fix)
                                  ELSE <<"Use", pm, "instead">>,
                                  TRUE))
          [] name = "node_modules exists" ->
                Some(RepairAction(<<"Install", "dependencies", "using", pm>>,
                                  install_command(ctx), TRUE))
          [] name \in {"node_modules in sync", "node_modules integrity"} ->
                Some(RepairAction(<<"Reinstall", "dependencies", "using", pm>>,
                                  <<"rm", "-rf", "node_modules", "&&">> \o install_command(ctx),
                                  TRUE))
          [] name = "Lockfile exists" ->
                Some(RepairAction(<<"Generate", "lockfile", "using", pm>>,
                                  install_command_no_frozen(ctx), FALSE))
          [] name \in {"Lockfile integrity", "Lockfile hash match"} ->
                Some(RepairAction(<<"Update", "env.lock", "to", "match", "current", "lockfile">>,
                                  <<"zenvo", "lock">>, TRUE))
          [] name = "Lockfile corrupted" ->
                Some(RepairAction(<<"Regenerate", "corrupted", "lockfile", "using", pm>>,
                                  <<"rm", "-f", get_lockfile_name(pm), "&&">>
                                      \o install_command_no_frozen(ctx),
                                  FALSE))
          [] name = "Single lockfile" ->
                Some(RepairAction(<<"Remove", "duplicate", "lockfiles">>,
                                  <<"Review", "and", "remove", "unused", "lockfile", "manually">>,
                                  FALSE))
          [] name \in {"npm cache integrity", "Cache corrupted"} -> cache_action(ctx)
          [] name = "TypeScript config" ->
                Some(RepairAction(<<"Initialize", "TypeScript", "config">>,
                                  CASE pm = "pnpm" -> <<"pnpm", "exec", "tsc", "--init">>
                                    [] pm = "yarn" -> <<"yarn", "tsc", "--init">>
                                    [] pm = "bun" -> <<"bun", "x", "tsc", "--init">>
                                    [] OTHER -> <<"npx", "tsc", "--init">>,
                                  TRUE))
          [] name = "ESLint config" ->
                Some(RepairAction(<<"Initialize", "ESLint", "config">>,
                                  CASE pm = "pnpm" -> <<"pnpm", "create", "@eslint/config">>
                                    [] pm = "yarn" -> <<"yarn", "create", "@eslint/config">>
                                    [] pm = "bun" -> <<"bun", "create", "@eslint/config">>
                                    [] OTHER -> <<"npm", "init", "@eslint/config">>,
                                  FALSE))
          [] name \in {"Corepack available", "Corepack enabled"} ->
                Some(RepairAction(<<"Enable", "Corepack">>, <<"corepack", "enable">>, TRUE))
          [] name = "Prettier config" ->
                Some(RepairAction(<<"Create", "Prettier", "config">>,
                                  <<"echo", "'{}'", ">", ".prettierrc">>, TRUE))
          [] name = "Peer dependencies" ->
                Some(RepairAction(<<"Install", "missing", "peer", "dependencies">>,
                                  CASE pm = "pnpm" -> <<"pnpm", "install">>
                                    [] pm = "yarn" -> <<"yarn", "install">>
                                    [] pm = "bun" -> <<"bun", "install">>
                                    [] OTHER -> <<"npm", "install">>,
                                  TRUE))
          [] name \in {"npm accessible", "yarn accessible", "pnpm accessible", "bun accessible"} ->
                LET tool == StripAccessible(name)
                IN  Some(RepairAction(<<"Install", tool, "package", "manager">>,
                                      CASE tool = "yarn" ->
                                               <<"corepack", "enable", "&&", "corepack", "prepare",
                                                 "yarn@stable", "--activate">>
                                        [] tool = "pnpm" ->
                                               <<"corepack", "enable", "&&", "corepack", "prepare",
                                                 "pnpm@latest", "--activate">>
                                        [] tool = "bun" -> <<"npm", "install", "-g", "bun">>
                                        [] OTHER ->
                                               <<"npm", "is", "included", "with", "Node.js", "-",
                                                 "reinstall", "Node.js">>,
                                      FALSE))
          [] name = "Node.js accessible" -> node_install_action(ctx)
          [] OTHER -> fallback_action(issue)

\* Vec::sort_by(|a, b| b.is_safe.cmp(&a.is_safe)) is a stable sort: insert
\* each action after every action it does not order before
RECURSIVE InsertStable(_, _)
InsertStable(sorted, a) ==
    IF sorted = <<>> THEN <<a>>
    ELSE LET last == sorted[Len(sorted)]
         IN  IF a.is_safe /\ ~last.is_safe
             THEN Append(InsertStable(SubSeq(sorted, 1, Len(sorted) - 1), a), last)
             ELSE Append(sorted, a)

RECURSIVE SortSafeFirst(_)
SortSafeFirst(actions) ==
    IF actions = <<>> THEN <<>>
    ELSE InsertStable(SortSafeFirst(SubSeq(actions, 1, Len(actions) - 1)), actions[Len(actions)])

\* The loop of generate_repair_plan_with_context: the actions in finding order
RECURSIVE CollectActions(_, _)
CollectActions(list, ctx) ==
    IF list = <<>> THEN <<>>
    ELSE issue_to_action_with_context(list[1], ctx) \o CollectActions(Tail(list), ctx)

\* generate_repair_plan_with_context that sorts needs-review first
generate_repair_plan_review_first(list, ctx) ==
    LET collected == CollectActions(list, ctx)
        flipped == [i \in 1..Len(collected) |->
                       [collected[i] EXCEPT !.is_safe = ~collected[i].is_safe]]
        sorted == SortSafeFirst(flipped)
    IN  [i \in 1..Len(sorted) |-> [sorted[i] EXCEPT !.is_safe = ~sorted[i].is_safe]]

\* generate_repair_plan_with_context
generate_repair_plan_with_context(list, ctx) == SortSafeFirst(CollectActions(list, ctx))

PackageManagers == {"npm", "yarn", "pnpm", "bun"}

VersionManagers == {None, Some("volta"), Some("fnm"), Some("nvm"), Some("system")}

TargetVersions == {None, Some("20.11.0")}

Contexts ==
    {RepairContext(pm, m, t) : pm \in PackageManagers, m \in VersionManagers, t \in TargetVersions}

\* The process environment: the variables set, and the platform built for
ProcEnv(set, os) == [vars |-> set, os |-> os]

ProcEnvs ==
    {ProcEnv({"VOLTA_HOME"}, "linux"), ProcEnv({"FNM_MULTISHELL_PATH"}, "linux"),
     ProcEnv({"NVM_DIR"}, "macos"), ProcEnv({}, "windows"), ProcEnv({}, "macos"),
     ProcEnv({}, "linux")}

IdleContext == RepairContext("npm", None, None)
IdleProcEnv == ProcEnv({}, "linux")

\* The names with an arm of their own in issue_to_action_with_context
TableNames ==
    {"Node version match", "Package manager match", "node_modules exists",
     "node_modules in sync", "node_modules integrity", "Lockfile exists",
     "Lockfile integrity", "Lockfile hash match", "Lockfile corrupted", "Single lockfile",
     "npm cache integrity", "Cache corrupted", "TypeScript config", "ESLint config",
     "Corepack available", "Corepack enabled", "Prettier config", "Peer dependencies",
     "npm accessible", "yarn accessible", "pnpm accessible", "bun accessible",
     "Node.js accessible"}

\* Names the checks emit that have no arm
OtherNames == {"Engines compliance", "Package manager version", "package.json exists"}

EnginesFix == <<"Install", "a", "Node", "version", "matching", ">=18.17.0">>

\* One finding at a time: every name, with and without a fix
AllFindings ==
    {CheckResult(n, "Error", <<>>, f) :
         n \in TableNames \cup OtherNames, f \in {None, Some(<<"fix", "it">>)}}
      \cup {CheckResult("Node version match", "Error",
                        <<"Expected", "18.17.0", "but", "found", "16.0.0">>,
                        Some(<<"nvm", "use", "18.17.0">>)),
            CheckResult("Engines compliance", "Error", <<>>, Some(EnginesFix)),
            CheckResult("package.json exists", "Error", <<>>, Some(<<>>))}

\* Lists of findings: Safe, needs-review, context-dependent, generic, dropped
CoreFindings ==
    {CheckResult("node_modules exists", "Error", <<>>, None),
     CheckResult("Corepack available", "Warning", <<>>, None),
     CheckResult("Lockfile exists", "Error", <<>>, None),
     CheckResult("Cache corrupted", "Warning", <<>>, None),
     CheckResult("Engines compliance", "Error", <<>>, Some(EnginesFix)),
     CheckResult("Package manager version", "Warning", <<>>, None)}

(***************************************************************************)
(* Repair executor: src/repair/mod.rs                                      *)
(***************************************************************************)

\* Most lines the child writes to stderr
MaxStderrLines == 2

\* str::lines: the pieces between line feeds, no last piece after a final one
Lines(text) ==
    LET pieces == SplitOn(text, "\n")
    IN  IF pieces[Len(pieces)] = <<>> THEN SubSeq(pieces, 1, Len(pieces) - 1) ELSE pieces

\* The closure of is_only_warnings without its "deprecated" test
warning_line_no_deprecated(line) ==
    \/ line = <<>>
    \/ (Len(line) >= 2 /\ line[1] = "warning")
    \/ (Len(line) >= 2 /\ line[1] = "npm" /\ line[2] = "WARN")

\* The closure of is_only_warnings: a blank line, a "warning " line, an
\* "npm WARN" line, or a line mentioning "deprecated"
warning_line(line) ==
    \/ line = <<>>
    \/ (Len(line) >= 2 /\ line[1] = "warning")
    \/ (Len(line) >= 2 /\ line[1] = "npm" /\ line[2] = "WARN")
    \/ Contains(line, <<"deprecated">>)

\* std::process::Output of the shell: spawned or not, status.success(), streams
Output(spawned, success, stdout, stderr) ==
    [spawned |-> spawned, success |-> success, stdout |-> stdout, stderr |-> stderr]

ExecOk(ran) == [ok |-> TRUE, ran |-> ran, err |-> <<>>]
ExecErr(ran, detail) == [ok |-> FALSE, ran |-> ran, err |-> detail]

\* execute_repair that tolerates a non-zero exit whatever stdout holds
execute_repair_any_stdout(a, out) ==
    IF \/ Contains(a.command, <<"manually">>)
       \/ Contains(a.command, <<"Manual">>)
       \/ Contains(a.command, <<"reinstall", "Node.js">>)
    THEN ExecOk(FALSE)
    ELSE IF ~out.spawned THEN ExecErr(FALSE, <<"spawn">>)
    ELSE IF ~out.success
    THEN LET is_only_warnings == \A i \in 1..Len(Lines(out.stderr)) : warning_line(Lines(out.stderr)[i])
         IN  IF is_only_warnings
             THEN ExecOk(TRUE)
             ELSE ExecErr(TRUE, IF out.stderr = <<>> THEN out.stdout ELSE out.stderr)
    ELSE ExecOk(TRUE)

\* execute_repair that hands every command to the shell
execute_repair_every_command(a, out) ==
    IF ~out.spawned THEN ExecErr(FALSE, <<"spawn">>)
    ELSE IF ~out.success
    THEN LET is_only_warnings == \A i \in 1..Len(Lines(out.stderr)) : warning_line(Lines(out.stderr)[i])
         IN  IF /\ is_only_warnings
                /\ ~Contains(out.stdout, <<"error">>)
                /\ ~Contains(out.stdout, <<"ERR!">>)
             THEN ExecOk(TRUE)
             ELSE ExecErr(TRUE, IF out.stderr = <<>> THEN out.stdout ELSE out.stderr)
    ELSE ExecOk(TRUE)

\* execute_repair: Ok(()) or the error; `ran` tells whether a shell was run
execute_repair(a, out) ==
    IF \/ Contains(a.command, <<"manually">>)
       \/ Contains(a.command, <<"Manual">>)
       \/ Contains(a.command, <<"reinstall", "Node.js">>)
    THEN ExecOk(FALSE)
    ELSE IF ~out.spawned THEN ExecErr(FALSE, <<"spawn">>)
    ELSE IF ~out.success
    THEN LET is_only_warnings == \A i \in 1..Len(Lines(out.stderr)) : warning_line(Lines(out.stderr)[i])
         IN  IF /\ is_only_warnings
                /\ ~Contains(out.stdout, <<"error">>)
                /\ ~Contains(out.stdout, <<"ERR!">>)
             THEN ExecOk(TRUE)
             ELSE ExecErr(TRUE, IF out.stderr = <<>> THEN out.stdout ELSE out.stderr)
    ELSE ExecOk(TRUE)

\* Lines a package manager writes to stderr
StderrLineChoices ==
    {<<"npm", "WARN", "old", "lockfile">>,
     <<"warning", "unmet", "peer">>,
     <<"left-pad", "is", "deprecated">>,
     <<>>,
     <<"npm", "ERR!", "code", "ELIFECYCLE">>,
     <<"pnpm", "WARN", "unmet", "peer">>,
     <<"npm", "WARN", "error", "in", "hook">>}

\* The lines written one after the other, each ended by a line feed
RECURSIVE JoinLines(_)
JoinLines(ls) == IF ls = <<>> THEN <<>> ELSE ls[1] \o <<"\n">> \o JoinLines(Tail(ls))

Stderrs == {JoinLines(ls) : ls \in SeqsUpTo(StderrLineChoices, MaxStderrLines)}

Stdouts ==
    {<<>>, <<"added", "3", "packages">>, <<"error", "no", "lockfile">>, <<"npm", "ERR!", "cb()">>}

Outputs ==
    {Output(TRUE, ok, so, se) : ok \in BOOLEAN, so \in Stdouts, se \in Stderrs}
        \cup {Output(FALSE, FALSE, <<>>, <<>>)}

EnableCorepack == RepairAction(<<"Enable", "Corepack">>, <<"corepack", "enable">>, TRUE)

RemoveLockfiles ==
    RepairAction(<<"Remove", "duplicate", "lockfiles">>,
                 <<"Review", "and", "remove", "unused", "lockfile", "manually">>, FALSE)

ExecActions ==
    {EnableCorepack, RemoveLockfiles,
     RepairAction(<<"Install", "dependencies", "using", "npm">>, <<"npm", "ci">>, TRUE),
     RepairAction(<<"Install", "npm", "package", "manager">>,
                  <<"npm", "is", "included", "with", "Node.js", "-", "reinstall", "Node.js">>,
                  FALSE)}

(***************************************************************************)
(* Check run: src/checks/mod.rs and src/checks/toolchain.rs                *)
(***************************************************************************)

\* The texts the checks read character by character.  Elsewhere such a text
\* is one word of a message or of a command; Chars gives its characters.
Chars(word) ==
    CASE word = "" -> <<>>
      [] word = "16.0.0" -> <<"1", "6", ".", "0", ".", "0">>
      [] word = "18.17.0" -> <<"1", "8", ".", "1", "7", ".", "0">>
      [] word = "20.11.0" -> <<"2", "0", ".", "1", "1", ".", "0">>
      [] word = "20.11.0-nightly" ->
             <<"2", "0", ".", "1", "1", ".", "0", "-", "n", "i", "g", "h", "t", "l", "y">>
      [] word = "10.2.4" -> <<"1", "0", ".", "2", ".", "4">>
      [] word = "8.15.1" -> <<"8", ".", "1", "5", ".", "1">>
      [] word = "npm" -> <<"n", "p", "m">>
      [] word = "pnpm" -> <<"p", "n", "p", "m">>
      [] word = "npm@10.2.4" -> <<"n", "p", "m", "@", "1", "0", ".", "2", ".", "4">>
      [] word = "pnpm@8.15.1" -> <<"p", "n", "p", "m", "@", "8", ".", "1", "5", ".", "1">>
      [] word = ">=18.17.0" -> <<">", "=", "1", "8", ".", "1", "7", ".", "0">>
      [] word = ">=16" -> <<">", "=", "1", "6">>
      [] word = "^20" -> <<"^", "2", "0">>
      [] word = "~16.0" -> <<"~", "1", "6", ".", "0">>
      [] word = "<18" -> <<"<", "1", "8">>
      [] word = ">=16.0.0 <21.0.0" ->
             <<">", "=", "1", "6", ".", "0", ".", "0", " ", "<", "2", "1", ".", "0", ".", "0">>
      [] word = "16 || >=20" -> <<"1", "6", " ", "|", "|", " ", ">", "=", "2", "0">>
      [] word = "lts/*" -> <<"l", "t", "s", "/", "*">>
      [] word = "*" -> <<"*">>
      [] word = "ERESOLVE" ->
             <<"E", "R", "E", "S", "O", "L", "V", "E">>
      [] word = "While resolving:" ->
             <<"W", "h", "i", "l", "e", " ", "r", "e", "s", "o", "l", "v", "i", "n", "g", ":">>
      [] word = "Found:" ->
             <<"F", "o", "u", "n", "d", ":">>
      [] word = "node_modules" ->
             <<"n", "o", "d", "e", "_", "m", "o", "d", "u", "l", "e", "s">>
      [] word = "peer " ->
             <<"p", "e", "e", "r", " ">>
      [] word = "peerOptional " ->
             <<"p", "e", "e", "r", "O", "p", "t", "i", "o", "n", "a", "l", " ">>
      [] word = " from " ->
             <<" ", "f", "r", "o", "m", " ">>
      [] word = "Conflicting peer dependency:" ->
             <<"C", "o", "n", "f", "l", "i", "c", "t", "i", "n", "g", " ", "p", "e", "e", "r",
               " ", "d", "e", "p", "e", "n", "d", "e", "n", "c", "y", ":">>
      [] word = "Could not resolve dependency" ->
             <<"C", "o", "u", "l", "d", " ", "n", "o", "t", " ", "r", "e", "s", "o", "l", "v",
               "e", " ", "d", "e", "p", "e", "n", "d", "e", "n", "c", "y">>
      [] word = " (suggested: " ->
             <<" ", "(", "s", "u", "g", "g", "e", "s", "t", "e", "d", ":", " ">>
      [] word = "npm error " ->
             <<"n", "p", "m", " ", "e", "r", "r", "o", "r", " ">>
      [] word = "could not resolve" ->
             <<"c", "o", "u", "l", "d", " ", "n", "o", "t", " ", "r", "e", "s", "o", "l", "v",
               "e">>
      [] word = "react" ->
             <<"r", "e", "a", "c", "t">>
      [] word = "@types/react" ->
             <<"@", "t", "y", "p", "e", "s", "/", "r", "e", "a", "c", "t">>
      [] word = "react-native" ->
             <<"r", "e", "a", "c", "t", "-", "n", "a", "t", "i", "v", "e">>
      [] word = "@shopify/react-native-skia" ->
             <<"@", "s", "h", "o", "p", "i", "f", "y", "/", "r", "e", "a", "c", "t", "-", "n",
               "a", "t", "i", "v", "e", "-", "s", "k", "i", "a">>
      [] word = "19.1.0" ->
             <<"1", "9", ".", "1", ".", "0">>
      [] word = "19.0.14" ->
             <<"1", "9", ".", "0", ".", "1", "4">>
      [] word = "0.81.5" ->
             <<"0", ".", "8", "1", ".", "5">>
      [] word = "1.12.4" ->
             <<"1", ".", "1", "2", ".", "4">>
      [] word = "19.2.8" ->
             <<"1", "9", ".", "2", ".", "8">>
      [] word = "^19.1.0" ->
             <<"^", "1", "9", ".", "1", ".", "0">>
      [] word = ">=18.0 <19.0.0" ->
             <<">", "=", "1", "8", ".", "0", " ", "<", "1", "9", ".", "0", ".", "0">>
      [] word = "latest" ->
             <<"l", "a", "t", "e", "s", "t">>
      [] word = "next" ->
             <<"n", "e", "x", "t">>
      [] word = " || " ->
             <<" ", "|", "|", " ">>
      [] word = "^16 || ^20" ->
             <<"^", "1", "6", " ", "|", "|", " ", "^", "2", "0">>
      [] word = "lodash" ->
             <<"l", "o", "d", "a", "s", "h">>
      [] word = "4.17.21" ->
             <<"4", ".", "1", "7", ".", "2", "1">>
      [] word = "18.2.0" ->
             <<"1", "8", ".", "2", ".", "0">>
      [] word = "18.0.0" ->
             <<"1", "8", ".", "0", ".", "0">>
      [] word = ".bin" ->
             <<".", "b", "i", "n">>
      [] word = ".pnpm" ->
             <<".", "p", "n", "p", "m">>
      [] word = ".cache" ->
             <<".", "c", "a", "c", "h", "e">>
      [] word = "@types" ->
             <<"@", "t", "y", "p", "e", "s">>
      [] word = "node" ->
             <<"n", "o", "d", "e">>
      [] word = "broken" ->
             <<"b", "r", "o", "k", "e", "n">>
      [] word = "lodash@4.17.21" ->
             <<"l", "o", "d", "a", "s", "h", "@", "4", ".", "1", "7", ".", "2", "1">>
      [] word = "@types+node@18.0.0" ->
             <<"@", "t", "y", "p", "e", "s", "+", "n", "o", "d", "e", "@", "1", "8", ".", "0",
               ".", "0">>
      [] word = "react@18.2.0" ->
             <<"r", "e", "a", "c", "t", "@", "1", "8", ".", "2", ".", "0">>
      [] word = "lock.yaml" ->
             <<"l", "o", "c", "k", ".", "y", "a", "m", "l">>
      [] word = "Lockfile exists" ->
             <<"L", "o", "c", "k", "f", "i", "l", "e", " ", "e", "x", "i", "s", "t", "s">>
      [] word = "lockfile exists" ->
             <<"l", "o", "c", "k", "f", "i", "l", "e", " ", "e", "x", "i", "s", "t", "s">>
      [] word = "LOCKFILE EXISTS" ->
             <<"L", "O", "C", "K", "F", "I", "L", "E", " ", "E", "X", "I", "S", "T", "S">>
      [] word = "Corepack enabled" ->
             <<"C", "o", "r", "e", "p", "a", "c", "k", " ", "e", "n", "a", "b", "l", "e", "d">>
      [] word = "corepack enabled" ->
             <<"c", "o", "r", "e", "p", "a", "c", "k", " ", "e", "n", "a", "b", "l", "e", "d">>
      [] word = "Peer dependencies" ->
             <<"P", "e", "e", "r", " ", "d", "e", "p", "e", "n", "d", "e", "n", "c", "i", "e",
               "s">>
      [] word = "peer dependencies" ->
             <<"p", "e", "e", "r", " ", "d", "e", "p", "e", "n", "d", "e", "n", "c", "i", "e",
               "s">>
      [] word = "Binaries installed" ->
             <<"B", "i", "n", "a", "r", "i", "e", "s", " ", "i", "n", "s", "t", "a", "l", "l",
               "e", "d">>
      [] word = "Cache corrupted" ->
             <<"C", "a", "c", "h", "e", " ", "c", "o", "r", "r", "u", "p", "t", "e", "d">>
      [] word = "Corepack available" ->
             <<"C", "o", "r", "e", "p", "a", "c", "k", " ", "a", "v", "a", "i", "l", "a", "b",
               "l", "e">>
      [] word = "Engines compliance" ->
             <<"E", "n", "g", "i", "n", "e", "s", " ", "c", "o", "m", "p", "l", "i", "a", "n",
               "c", "e">>
      [] word = "Lockfile integrity" ->
             <<"L", "o", "c", "k", "f", "i", "l", "e", " ", "i", "n", "t", "e", "g", "r", "i",
               "t", "y">>
      [] word = "Node version match" ->
             <<"N", "o", "d", "e", " ", "v", "e", "r", "s", "i", "o", "n", " ", "m", "a", "t",
               "c", "h">>
      [] word = "Node.js accessible" ->
             <<"N", "o", "d", "e", ".", "j", "s", " ", "a", "c", "c", "e", "s", "s", "i", "b",
               "l", "e">>
      [] word = "Package manager match" ->
             <<"P", "a", "c", "k", "a", "g", "e", " ", "m", "a", "n", "a", "g", "e", "r", " ",
               "m", "a", "t", "c", "h">>
      [] word = "Package manager version" ->
             <<"P", "a", "c", "k", "a", "g", "e", " ", "m", "a", "n", "a", "g", "e", "r", " ",
               "v", "e", "r", "s", "i", "o", "n">>
      [] word = "Phantom dependencies" ->
             <<"P", "h", "a", "n", "t", "o", "m", " ", "d", "e", "p", "e", "n", "d", "e", "n",
               "c", "i", "e", "s">>
      [] word = "Single lockfile" ->
             <<"S", "i", "n", "g", "l", "e", " ", "l", "o", "c", "k", "f", "i", "l", "e">>
      [] word = "Workspace detected" ->
             <<"W", "o", "r", "k", "s", "p", "a", "c", "e", " ", "d", "e", "t", "e", "c", "t",
               "e", "d">>
      [] word = "node_modules exists" ->
             <<"n", "o", "d", "e", "_", "m", "o", "d", "u", "l", "e", "s", " ", "e", "x", "i",
               "s", "t", "s">>
      [] word = "package.json exists" ->
             <<"p", "a", "c", "k", "a", "g", "e", ".", "j", "s", "o", "n", " ", "e", "x", "i",
               "s", "t", "s">>
      [] word = "package.json readable" ->
             <<"p", "a", "c", "k", "a", "g", "e", ".", "j", "s", "o", "n", " ", "r", "e", "a",
               "d", "a", "b", "l", "e">>
      [] word = "package.json valid" ->
             <<"p", "a", "c", "k", "a", "g", "e", ".", "j", "s", "o", "n", " ", "v", "a", "l",
               "i", "d">>
      [] word = "npm accessible" ->
             <<"n", "p", "m", " ", "a", "c", "c", "e", "s", "s", "i", "b", "l", "e">>
      [] word = "pnpm accessible" ->
             <<"p", "n", "p", "m", " ", "a", "c", "c", "e", "s", "s", "i", "b", "l", "e">>
      [] word = "yarn accessible" ->
             <<"y", "a", "r", "n", " ", "a", "c", "c", "e", "s", "s", "i", "b", "l", "e">>
      [] word = "bun accessible" ->
             <<"b", "u", "n", " ", "a", "c", "c", "e", "s", "s", "i", "b", "l", "e">>
      [] word = "engines compliance" ->
             <<"e", "n", "g", "i", "n", "e", "s", " ", "c", "o", "m", "p", "l", "i", "a", "n",
               "c", "e">>
      [] word = "corepack available" ->
             <<"c", "o", "r", "e", "p", "a", "c", "k", " ", "a", "v", "a", "i", "l", "a", "b",
               "l", "e">>
      [] word = "-beta" ->
             <<"-", "b", "e", "t", "a">>
      [] word = "-rc" ->
             <<"-", "r", "c">>

KnownWords ==
    {"", "16.0.0", "18.17.0", "20.11.0", "20.11.0-nightly", "10.2.4", "8.15.1", "npm", "pnpm",
     "npm@10.2.4", "pnpm@8.15.1", ">=18.17.0", ">=16", "^20", "~16.0", "<18",
     ">=16.0.0 <21.0.0", "16 || >=20", "lts/*", "*"}

\* The text with these characters
Word(text) == The({CHOOSE w \in KnownWords : Chars(w) = cs : cs \in {text}})

\* str::starts_with
StartsWith(text, prefix) ==
    The({Len(cs) >= Len(p) /\ SubSeq(cs, 1, Len(p)) = p : cs \in {text}, p \in {prefix}})

\* str::trim_start_matches: the prefix is removed as often as it repeats
RECURSIVE TrimStartMatches(_, _)
TrimStartMatches(text, prefix) ==
    The({IF StartsWith(cs, p) THEN TrimStartMatches(SubSeq(cs, Len(p) + 1, Len(cs)), p) ELSE cs :
             cs \in {text}, p \in {prefix}})

\* str::find(char): the first position of the character, 0 when there is none
Find(text, c) ==
    The({IF \A i \in 1..Len(cs) : cs[i] # c THEN 0
         ELSE CHOOSE i \in 1..Len(cs) : cs[i] = c /\ \A j \in 1..(i - 1) : cs[j] # c :
             cs \in {text}})

\* The first position where the separator starts in the text, 0 when nowhere
FindStr(text, separator) ==
    The({IF \A i \in 1..(Len(cs) - Len(sep) + 1) : SubSeq(cs, i, i + Len(sep) - 1) # sep THEN 0
         ELSE CHOOSE i \in 1..(Len(cs) - Len(sep) + 1) :
                  /\ SubSeq(cs, i, i + Len(sep) - 1) = sep
                  /\ \A j \in 1..(i - 1) : SubSeq(cs, j, j + Len(sep) - 1) # sep :
             cs \in {text}, sep \in {separator}})

\* str::split on a separator of several characters, empty pieces kept
RECURSIVE SplitStr(_, _)
SplitStr(text, separator) ==
    The({IF k = 0 THEN <<cs>>
         ELSE <<SubSeq(cs, 1, k - 1)>> \o SplitStr(SubSeq(cs, k + Len(sep), Len(cs)), sep) :
             cs \in {text}, sep \in {separator}, k \in {FindStr(text, separator)}})

\* str::split_once(char)
SplitOnce(text, c) ==
    The({IF k = 0 THEN None ELSE Some(<<SubSeq(cs, 1, k - 1), SubSeq(cs, k + 1, Len(cs))>>) :
             cs \in {text}, k \in {Find(text, c)}})

\* str::split_whitespace: the runs of characters that are not whitespace
RECURSIVE SplitWhitespace(_)
SplitWhitespace(text) ==
    The({IF t = <<>> THEN <<>>
         ELSE LET n == IF \A i \in 1..Len(t) : t[i] \notin Whitespace THEN Len(t) + 1
                       ELSE CHOOSE i \in 1..Len(t) :
                                /\ t[i] \in Whitespace
                                /\ \A j \in 1..(i - 1) : t[j] \notin Whitespace
              IN  <<SubSeq(t, 1, n - 1)>> \o SplitWhitespace(SubSeq(t, n, Len(t))) :
             t \in {TrimStart(text)}})

UpperCase ==
    <<"A", "B", "C", "D", "E", "F", "G", "H", "I", "J", "K", "L", "M", "N", "O", "P", "Q", "R",
      "S", "T", "U", "V", "W", "X", "Y", "Z">>

LowerCase ==
    <<"a", "b", "c", "d", "e", "f", "g", "h", "i", "j", "k", "l", "m", "n", "o", "p", "q", "r",
      "s", "t", "u", "v", "w", "x", "y", "z">>

\* str::to_lowercase
ToLowercase(text) ==
    The({[i \in 1..Len(cs) |->
             IF \E k \in 1..Len(UpperCase) : UpperCase[k] = cs[i]
             THEN LowerCase[CHOOSE k \in 1..Len(UpperCase) : UpperCase[k] = cs[i]]
             ELSE cs[i]] : cs \in {text}})

\* utils::CommandResult of a child process: Success and Failed carry stdout
CommandResult(kind, stdout) == [kind |-> kind, stdout |-> stdout]

\* package.json as check_package_json sees it, with the fields the checks read
PackageJson(state, engines_node, package_manager) ==
    [state |-> state, engines_node |-> engines_node, package_manager |-> package_manager]

\* The working directory and the tools on PATH.  check_lockfile, check_deps
\* and check_frameworks are what those three categories return: an Option of
\* findings, None when the category returned Err.
Project(pkg, workspace, lockfiles, node, tool, corepack, detected, lockfile, deps, frameworks) ==
    [package_json |-> pkg, workspace |-> workspace, lockfiles |-> lockfiles,
     node |-> node, tool |-> tool, corepack |-> corepack, detect_lockfile |-> detected,
     check_lockfile |-> lockfile, check_deps |-> deps, check_frameworks |-> frameworks]

\* CurrentEnvironment
CurrentEnvironment(node_version, package_manager, package_manager_version) ==
    [node_version |-> node_version, package_manager |-> package_manager,
     package_manager_version |-> package_manager_version]

\* detect_node_version: `node --version`, trimmed, without the leading v
detect_node_version(proj) ==
    IF proj.node.kind = "Success"
    THEN The({IF version = <<>>
              THEN Err("detect_node_version", "node --version returned empty output")
              ELSE Ok("detect_node_version", Word(version)) :
                  version \in {TrimStartMatches(Trim(proj.node.stdout), <<"v">>)}})
    ELSE IF proj.node.kind = "Failed"
    THEN Err("detect_node_version", "node --version failed")
    ELSE IF proj.node.kind = "TimedOut"
    THEN Err("detect_node_version", "node --version timed out")
    ELSE Err("detect_node_version", "Failed to execute 'node --version'")

\* get_tool_version: `<tool> --version`, trimmed
get_tool_version(proj) ==
    IF proj.tool.kind = "Success"
    THEN The({IF version = <<>>
              THEN Err("get_tool_version", "--version returned empty output")
              ELSE Ok("get_tool_version", Word(version)) :
                  version \in {Trim(proj.tool.stdout)}})
    ELSE IF proj.tool.kind = "Failed" THEN Err("get_tool_version", "--version failed")
    ELSE IF proj.tool.kind = "TimedOut" THEN Err("get_tool_version", "--version timed out")
    ELSE Err("get_tool_version", "Failed to execute --version")

\* detect_package_manager: the packageManager field, else the lockfile on
\* disk, else npm; the version is asked of the tool in the last two cases
detect_package_manager(proj) ==
    LET pkg == proj.package_json
        pm == IF "pnpm-lock.yaml" \in proj.lockfiles THEN "pnpm"
              ELSE IF "yarn.lock" \in proj.lockfiles THEN "yarn"
              ELSE "npm"
    IN  The({IF IsSome(field)
             THEN Ok("detect_package_manager",
                     <<Word(Unwrap(field)[1]), Word(Unwrap(field)[2])>>)
             ELSE The({IF ~version.ok THEN Err("detect_package_manager", version.err)
                       ELSE Ok("detect_package_manager", <<pm, version.value>>) :
                           version \in {get_tool_version(proj)}}) :
                 field \in {IF pkg.state = "valid" /\ IsSome(pkg.package_manager)
                            THEN SplitOnce(Chars(Unwrap(pkg.package_manager)), "@")
                            ELSE None}})

\* detect_current_environment: the first failing detection is the error
detect_current_environment(proj) ==
    The({IF ~node.ok THEN Err("detect_current_environment", node.err)
         ELSE The({IF ~pm.ok THEN Err("detect_current_environment", pm.err)
                   ELSE IF ~proj.detect_lockfile
                   THEN Err("detect_current_environment", "detect_lockfile")
                   ELSE Ok("detect_current_environment",
                           CurrentEnvironment(node.value, pm.value[1], pm.value[2])) :
                       pm \in {detect_package_manager(proj)}}) :
             node \in {detect_node_version(proj)}})

\* format!("{} accessible", pm)
AccessibleName(pm) ==
    CASE pm = "npm" -> "npm accessible"
      [] pm = "yarn" -> "yarn accessible"
      [] pm = "pnpm" -> "pnpm accessible"
      [] pm = "bun" -> "bun accessible"

\* check_package_manager_accessible
check_package_manager_accessible(pm, proj) ==
    CASE proj.tool.kind = "Success" -> CheckResult(AccessibleName(pm), "Pass", <<>>, None)
      [] proj.tool.kind = "Failed" ->
             CheckResult(AccessibleName(pm), "Error", <<pm, "command", "failed">>,
                         Some(<<"Install", pm, "or", "check", "your", "PATH">>))
      [] proj.tool.kind = "TimedOut" ->
             CheckResult(AccessibleName(pm), "Error", <<pm, "command", "timed", "out">>,
                         Some(<<"Check", "if", pm, "is", "working", "correctly">>))
      [] proj.tool.kind = "SpawnError" ->
             CheckResult(AccessibleName(pm), "Error", <<pm, "not", "found", "in", "PATH">>,
                         Some(<<"Install", pm, "or", "check", "your", "PATH">>))

\* check_corepack_status
check_corepack_status(proj) ==
    CASE proj.corepack = "Success" ->
             IF proj.package_json.state = "valid" /\ IsSome(proj.package_json.package_manager)
             THEN CheckResult("Corepack enabled", "Pass", <<>>, None)
             ELSE CheckResult("Corepack available", "Warning",
                              <<"Corepack", "is", "available", "but", "packageManager", "field",
                                "not", "set">>,
                              Some(<<"Add", "packageManager:", "<pm>@<version>", "to",
                                     "package.json">>))
      [] proj.corepack = "TimedOut" ->
             CheckResult("Corepack available", "Warning",
                         <<"Corepack", "command", "timed", "out">>, None)
      [] OTHER ->
             CheckResult("Corepack available", "Warning",
                         <<"Corepack", "is", "not", "available">>,
                         Some(<<"Upgrade", "to", "Node.js", "14.19+", "or", "run", "npm",
                                "install", "-g", "corepack">>))

\* is_valid_semver_base: two or three dot-separated parts, each a u32
is_valid_semver_base(s) ==
    The({/\ Len(parts) \in {2, 3}
         /\ \A i \in 1..Len(parts) : IsSome(ParseU32(parts[i])) : parts \in {SplitOn(s, ".")}})

\* The suffixes normalize_node_version knows
Suffixes ==
    {<<"-", "n", "i", "g", "h", "t", "l", "y">>, <<"-", "c", "a", "n", "a", "r", "y">>,
     <<"-", "a", "l", "p", "h", "a">>, <<"-", "b", "e", "t", "a">>, <<"-", "r", "c">>,
     <<"-", "p", "r", "e">>, <<"-", "d", "e", "v">>, <<"-", "t", "e", "s", "t">>}

\* normalize_node_version: the text left, and whether a suffix was cut
normalize_node_version(text) ==
    The({LET hyphen_idx == Find(version, "-")
             plus_idx == Find(version, "+")
             suffix_part == ToLowercase(SubSeq(version, hyphen_idx, Len(version)))
             base == SubSeq(version, 1, hyphen_idx - 1)
         IN  IF /\ hyphen_idx > 0
                /\ \/ \E suffix \in Suffixes : StartsWith(suffix_part, suffix)
                   \/ is_valid_semver_base(base)
             THEN <<base, TRUE>>
             ELSE IF plus_idx > 0 THEN <<SubSeq(version, 1, plus_idx - 1), TRUE>>
             ELSE <<version, FALSE>> :
                 version \in {TrimStartMatches(Trim(text), <<"v">>)}})

\* A numeric identifier of semver: digits only, no leading zero
SemverNumber(part) ==
    The({IF p = <<>> \/ (\E i \in 1..Len(p) : ~IsDigit(p[i])) \/ (Len(p) > 1 /\ p[1] = "0")
         THEN None
         ELSE Some(DecimalValue(p)) : p \in {part}})

\* semver::Version::parse on the texts normalize_node_version leaves: a
\* pre-release or build part that semver would accept was cut before, so
\* MAJOR.MINOR.PATCH is all that parses
semver_parse(text) ==
    The({IF Len(parts) # 3 \/ \E i \in 1..Len(parts) : ~IsSome(SemverNumber(parts[i]))
         THEN None
         ELSE Some(<<Unwrap(SemverNumber(parts[1])), Unwrap(SemverNumber(parts[2])),
                     Unwrap(SemverNumber(parts[3]))>>) : parts \in {SplitOn(text, ".")}})

\* parse_version_lenient: X.Y.Z, or X.Y and X completed with zeros
parse_version_lenient(text) ==
    The({The({IF IsSome(direct) THEN direct
              ELSE IF Len(parts) = 2 THEN semver_parse(normalized \o <<".", "0">>)
              ELSE IF Len(parts) = 1 THEN semver_parse(normalized \o <<".", "0", ".", "0">>)
              ELSE None :
                  direct \in {semver_parse(normalized)}, parts \in {SplitOn(normalized, ".")}}) :
             normalized \in {normalize_node_version(text)[1]}})

\* semver::Version < semver::Version, without pre-release parts
VersionLess(a, b) ==
    \/ a[1] < b[1]
    \/ (a[1] = b[1] /\ a[2] < b[2])
    \/ (a[1] = b[1] /\ a[2] = b[2] /\ a[3] < b[3])

\* The version after the operator of a constraint, when it parses
Operand(constraint, op) == parse_version_lenient(Trim(TrimStartMatches(constraint, op)))

\* check_semver_constraint: Some(satisfied), or None for a format it does not
\* recognize.  A branch taken by its prefix whose operand does not parse
\* falls through to the final None.
RECURSIVE check_semver_constraint(_, _)
check_semver_constraint(text, version) ==
    The({IF StartsWith(constraint, <<">", "=">>)
         THEN The({IF IsSome(min) THEN Some(~VersionLess(version, Unwrap(min))) ELSE None :
                       min \in {Operand(constraint, <<">", "=">>)}})
         ELSE IF StartsWith(constraint, <<">">>)
         THEN The({IF IsSome(min) THEN Some(VersionLess(Unwrap(min), version)) ELSE None :
                       min \in {Operand(constraint, <<">">>)}})
         ELSE IF StartsWith(constraint, <<"<", "=">>)
         THEN The({IF IsSome(max) THEN Some(~VersionLess(Unwrap(max), version)) ELSE None :
                       max \in {Operand(constraint, <<"<", "=">>)}})
         ELSE IF StartsWith(constraint, <<"<">>)
         THEN The({IF IsSome(max) THEN Some(VersionLess(version, Unwrap(max))) ELSE None :
                       max \in {Operand(constraint, <<"<">>)}})
         ELSE IF StartsWith(constraint, <<"^">>)
         THEN The({IF IsSome(base_ver)
                   THEN Some(/\ version[1] = Unwrap(base_ver)[1]
                             /\ ~VersionLess(version, Unwrap(base_ver)))
                   ELSE None :
                       base_ver \in {Operand(constraint, <<"^">>)}})
         ELSE IF StartsWith(constraint, <<"~">>)
         THEN The({IF IsSome(base_ver)
                   THEN Some(/\ version[1] = Unwrap(base_ver)[1]
                             /\ version[2] = Unwrap(base_ver)[2]
                             /\ ~VersionLess(version, Unwrap(base_ver)))
                   ELSE None :
                       base_ver \in {Operand(constraint, <<"~">>)}})
         ELSE IF Contains(constraint, <<"|", "|">>)
         THEN The({IF \E i \in 1..Len(outcomes) : outcomes[i] = Some(TRUE) THEN Some(TRUE)
                   ELSE IF \A i \in 1..Len(outcomes) : outcomes[i] = None THEN None
                   ELSE Some(FALSE) :
                       outcomes \in {The({[i \in 1..Len(pieces) |->
                                               check_semver_constraint(Trim(pieces[i]), version)] :
                                              pieces \in {SplitStr(constraint, <<"|", "|">>)}})}})
         ELSE IF Contains(constraint, <<" ">>)
         THEN The({IF \E i \in 1..Len(outcomes) : outcomes[i] = None THEN None
                   ELSE Some(\A i \in 1..Len(outcomes) : outcomes[i] = Some(TRUE)) :
                       outcomes \in {The({[i \in 1..Len(pieces) |->
                                               check_semver_constraint(pieces[i], version)] :
                                              pieces \in {SplitWhitespace(constraint)}})}})
         ELSE IF constraint \in {<<"*">>, <<"x">>, <<"X">>} THEN Some(TRUE)
         ELSE The({IF IsSome(exact) THEN Some(version = Unwrap(exact)) ELSE None :
                       exact \in {parse_version_lenient(constraint)}}) :
             constraint \in {Trim(text)}})

\* check_engines_compliance: Option<CheckResult>; the constraint is carried
\* in the message and in the fix as one word
check_engines_compliance(current, proj) ==
    LET pkg == proj.package_json
        node_constraint == Unwrap(pkg.engines_node)
        unparsed == CheckResult("Engines compliance", "Warning",
                                <<"Cannot", "parse", "Node", "version", current.node_version>>,
                                None)
        pass == CheckResult("Engines compliance", "Pass", <<>>, None)
        error == CheckResult("Engines compliance", "Error",
                             <<"Node", current.node_version, "does", "not", "satisfy",
                               "engines.node", "constraint:", node_constraint>>,
                             Some(<<"Install", "a", "Node", "version", "matching",
                                    node_constraint>>))
        unrecognized == CheckResult("Engines compliance", "Warning",
                                    <<"Unrecognized", "constraint", "format", node_constraint>>,
                                    None)
    IN  IF pkg.state # "valid" \/ ~IsSome(pkg.engines_node) THEN None
        ELSE The({IF ~IsSome(current_version) THEN Some(unparsed)
                  ELSE The({IF satisfied = Some(TRUE) THEN Some(pass)
                            ELSE IF satisfied = Some(FALSE) THEN Some(error)
                            ELSE Some(unrecognized) :
                                satisfied \in {check_semver_constraint(
                                                  Chars(node_constraint),
                                                  Unwrap(current_version))}}) :
                      current_version \in {parse_version_lenient(Chars(current.node_version))}})

\* toolchain::run_checks: the findings in the order they are pushed
run_checks(current, env_lock, proj) ==
    LET lock == Unwrap(env_lock)
        node_accessible ==
            IF current.node_version = ""
            THEN CheckResult("Node.js accessible", "Error",
                             <<"Node.js", "not", "found", "in", "PATH">>,
                             Some(<<"Install", "Node.js", "or", "check", "your", "PATH">>))
            ELSE CheckResult("Node.js accessible", "Pass", <<>>, None)
        node_match ==
            IF current.node_version # lock.toolchain.node
            THEN CheckResult("Node version match", "Error",
                             <<"Expected", lock.toolchain.node, "but", "found",
                               current.node_version>>,
                             Some(<<"nvm", "use", lock.toolchain.node, "or", "volta", "pin",
                                    "node@", lock.toolchain.node>>))
            ELSE CheckResult("Node version match", "Pass", <<>>, None)
        pm_match ==
            IF current.package_manager # lock.toolchain.package_manager
            THEN CheckResult("Package manager match", "Error",
                             <<"Expected", lock.toolchain.package_manager, "but", "found",
                               current.package_manager>>,
                             Some(<<"Use", lock.toolchain.package_manager, "instead">>))
            ELSE CheckResult("Package manager match", "Pass", <<>>, None)
        pm_version ==
            IF current.package_manager_version # lock.toolchain.package_manager_version
            THEN CheckResult("Package manager version", "Warning",
                             <<"Expected", lock.toolchain.package_manager_version, "but",
                               "found", current.package_manager_version>>,
                             None)
            ELSE CheckResult("Package manager version", "Pass", <<>>, None)
    IN  <<node_accessible, check_package_manager_accessible(current.package_manager, proj)>>
            \o (IF IsSome(env_lock) THEN <<node_match, pm_match, pm_version>> ELSE <<>>)
            \o <<check_corepack_status(proj)>>
            \o check_engines_compliance(current, proj)

\* The finding run_all_checks opens with: the state of package.json
package_json_finding(proj) ==
    CASE proj.package_json.state = "missing" ->
             CheckResult("package.json exists", "Error",
                         <<"No", "package.json", "found", "in", "current", "directory">>,
                         Some(<<"Run", "npm", "init", "or", "yarn", "init", "to", "create",
                                "package.json">>))
      [] proj.package_json.state = "invalid" ->
             CheckResult("package.json valid", "Error",
                         <<"package.json", "is", "invalid", "JSON">>,
                         Some(<<"Fix", "the", "JSON", "syntax", "in", "package.json">>))
      [] proj.package_json.state = "unreadable" ->
             CheckResult("package.json readable", "Error",
                         <<"Cannot", "read", "package.json">>,
                         Some(<<"Check", "file", "permissions:", "chmod", "644",
                                "package.json">>))
      [] proj.package_json.state = "valid" ->
             CheckResult("package.json valid", "Pass", <<>>, None)

\* run_all_checks without a configuration file: Ok(findings), or the first
\* error of a detection or of a category
run_all_checks(proj, env_lock, category) ==
    LET wanted(c) == category = None \/ category = Some(c)
        workspace == IF proj.workspace
                     THEN <<CheckResult("Workspace detected", "Info",
                                        <<"Running", "in", "workspace", "context">>, None)>>
                     ELSE <<>>
    IN  The({IF ~current.ok THEN Err("run_all_checks", current.err)
             ELSE IF wanted("Lockfile") /\ ~IsSome(proj.check_lockfile)
             THEN Err("run_all_checks", "lockfile checks")
             ELSE IF wanted("Deps") /\ ~IsSome(proj.check_deps)
             THEN Err("run_all_checks", "dependency checks")
             ELSE IF wanted("Frameworks") /\ ~IsSome(proj.check_frameworks)
             THEN Err("run_all_checks", "framework checks")
             ELSE Ok("run_all_checks",
                     <<package_json_finding(proj)>>
                         \o workspace
                         \o (IF wanted("Toolchain")
                             THEN run_checks(current.value, env_lock, proj) ELSE <<>>)
                         \o (IF wanted("Lockfile") THEN Unwrap(proj.check_lockfile) ELSE <<>>)
                         \o (IF wanted("Deps") THEN Unwrap(proj.check_deps) ELSE <<>>)
                         \o (IF wanted("Frameworks")
                             THEN Unwrap(proj.check_frameworks) ELSE <<>>)) :
                 current \in {detect_current_environment(proj)}})

(***************************************************************************)
(* Applying a plan: src/commands/repair.rs and src/mcp/handlers.rs         *)
(***************************************************************************)

\* Most findings a check run hands to a caller
MaxResults == 2

\* `zenvo repair` with its flags and the output format
Cli(plan_flag, apply, auto_yes, format) ==
    [kind |-> "cli", plan |-> plan_flag, apply |-> apply, auto_yes |-> auto_yes,
     format |-> format, execute |-> None, safe_only |-> None]

\* The fix_drift tool with its optional arguments
Mcp(execute, safe_only) ==
    [kind |-> "mcp", plan |-> FALSE, apply |-> FALSE, auto_yes |-> FALSE,
     format |-> "Json", execute |-> execute, safe_only |-> safe_only]

\* `zenvo doctor` with its optional category
DoctorCall(category) == [kind |-> "doctor", category |-> category]

\* Option::unwrap_or
UnwrapOr(o, default) == IF IsSome(o) THEN Unwrap(o) ELSE default

IsIssue(r) == r.severity \in {"Error", "Warning"}

\* results.iter().filter(Error or Warning).collect()
FilterIssues(rs) == SelectSeq(rs, IsIssue)

\* RepairContext::new(..).with_node_version_manager(..).with_target_node_version(..)
ContextFromLock(lock) ==
    RepairContext(lock.toolchain.package_manager, lock.toolchain.node_version_source,
                  Some(lock.toolchain.node))

\* input.trim().eq_ignore_ascii_case("y")
IsYes(input) == Len(Trim(input)) = 1 /\ Trim(input)[1] \in {"y", "Y"}

\* What the prompt reads: an I/O error, or the line typed (empty at end of input)
Prompt(err, line) == [err |-> err, line |-> line]

PromptInputs ==
    {Prompt(TRUE, <<>>), Prompt(FALSE, <<>>), Prompt(FALSE, <<"y", "\n">>),
     Prompt(FALSE, <<" ", "Y", "\n">>), Prompt(FALSE, <<"n", "\n">>),
     Prompt(FALSE, <<"y", "e", "s", "\n">>)}

\* What the shell does with one command of a plan
StepOutputs ==
    {Output(TRUE, TRUE, <<"added", "3", "packages">>, <<>>),
     Output(TRUE, FALSE, <<>>, <<"npm", "ERR!", "code", "ELIFECYCLE", "\n">>),
     Output(TRUE, FALSE, <<>>, <<"npm", "WARN", "old", "lockfile", "\n">>),
     Output(FALSE, FALSE, <<>>, <<>>)}

LogEntry(i, a, asked, confirmed, what) ==
    [idx |-> i, description |-> a.description, is_safe |-> a.is_safe, asked |-> asked,
     confirmed |-> confirmed, what |-> what]

\* skipped.push(action.description.clone()); continue
Skip(a, asked) ==
    /\ skipped' = Append(skipped, a.description)
    /\ log' = Append(log, LogEntry(idx, a, asked, FALSE, "skipped"))
    /\ idx' = idx + 1
    /\ UNCHANGED <<executed, failed, pc>>

\* The match on execute_repair with an Err arm that ends the run
ExecuteOrStop(a, asked) ==
    \E out \in StepOutputs :
        LET r == execute_repair(a, out)
        IN  /\ IF r.ok
               THEN /\ executed' = Append(executed, a.description)
                    /\ failed' = failed
                    /\ pc' = pc
               ELSE /\ failed' = Append(failed, [action |-> a.description, error |-> r.err])
                    /\ executed' = executed
                    /\ pc' = "done"
            /\ log' = Append(log, LogEntry(idx, a, asked, asked,
                                           IF r.ok THEN "executed" ELSE "failed"))
            /\ idx' = idx + 1
            /\ UNCHANGED skipped

\* match execute_repair(action): push to executed, or to failed with the error
Execute(a, asked) ==
    \E out \in StepOutputs :
        LET r == execute_repair(a, out)
        IN  /\ IF r.ok
               THEN /\ executed' = Append(executed, a.description)
                    /\ failed' = failed
               ELSE /\ failed' = Append(failed, [action |-> a.description, error |-> r.err])
                    /\ executed' = executed
            /\ log' = Append(log, LogEntry(idx, a, asked, asked,
                                           IF r.ok THEN "executed" ELSE "failed"))
            /\ idx' = idx + 1
            /\ UNCHANGED <<skipped, pc>>

\* The start of both callers: load env.lock, run the checks, keep the Error
\* and Warning findings, build the context from the snapshot and plan
Prepare(run_loop) ==
    \E loaded \in {load(envLockFile)} :
        IF ~loaded.ok
        THEN /\ pc' = "load_error"
             /\ UNCHANGED <<results, issues, context, plan, idx>>
        ELSE \E checked \in {run_all_checks(project, loaded.value, None)} :
                 IF ~checked.ok
                 THEN /\ pc' = "checks_error"
                      /\ UNCHANGED <<results, issues, context, plan, idx>>
                 ELSE /\ results' = Some(checked.value)
                      /\ issues' = FilterIssues(checked.value)
                      /\ IF issues' = <<>>
                         THEN /\ pc' = "done"
                              /\ UNCHANGED <<context, plan, idx>>
                         ELSE /\ context' = ContextFromLock(Unwrap(loaded.value))
                              /\ plan' = Some(generate_repair_plan_with_context(issues',
                                                                                 context'))
                              /\ pc' = IF run_loop THEN "loop" ELSE "done"
                              /\ idx' = 1

\* commands::repair::run up to its apply loop
RepairRun ==
    /\ pc = "start"
    /\ caller.kind = "cli"
    /\ IF ~caller.plan /\ ~caller.apply
       THEN /\ pc' = "done"
            /\ UNCHANGED <<results, issues, context, plan, idx>>
       ELSE Prepare(caller.apply)
    /\ UNCHANGED <<resolveVars, rangeVars, hashVars, saveVars, commandVars, configVars, verifyVars, searchVars, serverVars, pipeVars, projectVars, schemaVars, procEnv, execVars, caller, executed, skipped, failed, log>>

\* One iteration of the apply loop of commands::repair::run
RepairStep ==
    /\ pc = "loop"
    /\ caller.kind = "cli"
    /\ idx <= Len(Unwrap(plan))
    /\ LET a == Unwrap(plan)[idx]
       IN  \/ /\ ~a.is_safe /\ ~caller.auto_yes /\ caller.format = "Text"
              /\ \E input \in PromptInputs :
                    IF input.err
                    THEN /\ pc' = "prompt_error"
                         /\ UNCHANGED <<idx, executed, skipped, failed, log>>
                    ELSE IF ~IsYes(input.line)
                    THEN Skip(a, TRUE)
                    ELSE Execute(a, TRUE)
           \/ /\ ~a.is_safe /\ ~caller.auto_yes /\ caller.format = "Json"
              /\ Skip(a, FALSE)
           \/ /\ ~(~a.is_safe /\ ~caller.auto_yes)
              /\ Execute(a, FALSE)
    /\ UNCHANGED <<resolveVars, rangeVars, hashVars, saveVars, commandVars, configVars, verifyVars, searchVars, serverVars, pipeVars, projectVars, schemaVars, planVars, execVars, caller, results>>

\* The end of the apply loop of commands::repair::run: the report
RepairEnd ==
    /\ pc = "loop"
    /\ caller.kind = "cli"
    /\ idx > Len(Unwrap(plan))
    /\ pc' = "done"
    /\ UNCHANGED <<resolveVars, rangeVars, hashVars, saveVars, commandVars, configVars, verifyVars, searchVars, serverVars, pipeVars, projectVars, schemaVars, planVars, execVars, caller, results, idx, executed, skipped,
                   failed, log>>

\* fix_drift_impl up to its execute loop
FixDrift ==
    /\ pc = "start"
    /\ caller.kind = "mcp"
    /\ Prepare(UnwrapOr(caller.execute, FALSE))
    /\ UNCHANGED <<resolveVars, rangeVars, hashVars, saveVars, commandVars, configVars, verifyVars, searchVars, serverVars, pipeVars, projectVars, schemaVars, procEnv, execVars, caller, executed, skipped, failed, log>>

\* The execute loop of fix_drift_impl without the test on safe_only
FixDriftStepUnguarded ==
    /\ pc = "loop"
    /\ caller.kind = "mcp"
    /\ idx <= Len(Unwrap(plan))
    /\ Execute(Unwrap(plan)[idx], FALSE)
    /\ UNCHANGED <<resolveVars, rangeVars, hashVars, saveVars, commandVars, configVars, verifyVars, searchVars, serverVars, pipeVars, projectVars, schemaVars, planVars, execVars, caller, results>>

\* One iteration of the execute loop of fix_drift_impl
FixDriftStep ==
    /\ pc = "loop"
    /\ caller.kind = "mcp"
    /\ idx <= Len(Unwrap(plan))
    /\ LET a == Unwrap(plan)[idx]
       IN  \/ /\ UnwrapOr(caller.safe_only, TRUE) /\ ~a.is_safe
              /\ Skip(a, FALSE)
           \/ /\ ~(UnwrapOr(caller.safe_only, TRUE) /\ ~a.is_safe)
              /\ Execute(a, FALSE)
    /\ UNCHANGED <<resolveVars, rangeVars, hashVars, saveVars, commandVars, configVars, verifyVars, searchVars, serverVars, pipeVars, projectVars, schemaVars, planVars, execVars, caller, results>>

\* The end of the execute loop of fix_drift_impl: the response
FixDriftEnd ==
    /\ pc = "loop"
    /\ caller.kind = "mcp"
    /\ idx > Len(Unwrap(plan))
    /\ pc' = "done"
    /\ UNCHANGED <<resolveVars, rangeVars, hashVars, saveVars, commandVars, configVars, verifyVars, searchVars, serverVars, pipeVars, projectVars, schemaVars, planVars, execVars, caller, results, idx, executed, skipped,
                   failed, log>>

\* commands::doctor::run: load the snapshot if there is one, run the checks
Doctor ==
    /\ pc = "start"
    /\ caller.kind = "doctor"
    /\ \E loaded \in {load_if_exists(envLockFile)} :
           IF ~loaded.ok THEN pc' = "load_error" /\ results' = results
           ELSE \E checked \in {run_all_checks(project, loaded.value, caller.category)} :
                    IF ~checked.ok THEN pc' = "checks_error" /\ results' = results
                    ELSE pc' = "done" /\ results' = Some(checked.value)
    /\ UNCHANGED <<resolveVars, rangeVars, hashVars, saveVars, commandVars, configVars, verifyVars, searchVars, serverVars, pipeVars, projectVars, schemaVars, planVars, execVars, caller, idx, executed, skipped,
                   failed, log>>

Callers ==
    {Cli(p, a, y, f) : p \in BOOLEAN, a \in BOOLEAN, y \in BOOLEAN, f \in {"Text", "Json"}}
        \cup {Mcp(e, s) : e \in {None, Some(TRUE), Some(FALSE)},
                          s \in {None, Some(TRUE), Some(FALSE)}}

\* What the lockfile and dependency checks return: Safe, needs-review,
\* placeholder, dropped, passed
ApplyFindings ==
    {CheckResult("node_modules exists", "Error", <<>>, None),
     CheckResult("Lockfile integrity", "Warning", <<>>, None),
     CheckResult("Lockfile exists", "Error", <<>>, None),
     CheckResult("Single lockfile", "Warning", <<>>, None),
     CheckResult("Phantom dependencies", "Warning", <<>>, None),
     CheckResult("Binaries installed", "Pass", <<>>, None)}

CurrentLockFile == FileDocument(EnvLock(CURRENT_SCHEMA_VERSION, LockedToolchain))

\* What `node --version` prints
NodeV16 == CommandResult("Success", <<"v", "1", "6", ".", "0", ".", "0", "\n">>)
NodeV20 == CommandResult("Success", <<"v", "2", "0", ".", "1", "1", ".", "0", "\n">>)
NodeNightly ==
    CommandResult("Success", <<"v", "2", "0", ".", "1", "1", ".", "0", "-", "n", "i", "g", "h",
                               "t", "l", "y", "\n">>)
NodeSilent == CommandResult("Success", <<"\n">>)
NodeAbsent == CommandResult("SpawnError", <<>>)

\* What `<package manager> --version` does
ToolV10 == CommandResult("Success", <<"1", "0", ".", "2", ".", "4", "\n">>)
ToolAbsent == CommandResult("SpawnError", <<>>)
ToolHangs == CommandResult("TimedOut", <<>>)

\* A project in the state its snapshot LockedToolchain records
HealthyProject ==
    Project(PackageJson("valid", None, Some("npm@10.2.4")), FALSE, {}, NodeV20, ToolV10,
            "Success", TRUE, Some(<<>>), Some(<<>>), Some(<<>>))

\* engines.node of the manifest
EngineConstraints ==
    {None, Some(">=18.17.0"), Some(">=16"), Some("^20"), Some("~16.0"), Some("<18"),
     Some(">=16.0.0 <21.0.0"), Some("16 || >=20"), Some("^16 || ^20"), Some("lts/*"),
     Some("*")}

\* Projects with a readable manifest, over constraints, runtimes and tools
ManifestProjects ==
    {Project(PackageJson("valid", e, f), FALSE, {}, n, t, c, TRUE, l, Some(<<>>), Some(<<>>)) :
         e \in EngineConstraints, f \in {None, Some("pnpm@8.15.1")},
         n \in {NodeV16, NodeV20, NodeNightly}, t \in {ToolV10, ToolAbsent},
         c \in {"Success", "SpawnError"},
         l \in {Some(<<>>), Some(<<CheckResult("Lockfile exists", "Error", <<>>, None)>>)}}

\* Projects whose manifest, tools or categories fail
BrokenProjects ==
    {[HealthyProject EXCEPT !.package_json = PackageJson(st, None, None)] :
         st \in {"missing", "invalid", "unreadable"}}
      \cup {[HealthyProject EXCEPT !.node = n] : n \in {NodeSilent, NodeAbsent}}
      \cup {[HealthyProject EXCEPT !.package_json = PackageJson("valid", None, None),
                                   !.tool = t, !.lockfiles = {"pnpm-lock.yaml"}] :
                t \in {ToolAbsent, ToolHangs}}
      \cup {[HealthyProject EXCEPT !.corepack = "TimedOut"],
            [HealthyProject EXCEPT !.workspace = TRUE],
            [HealthyProject EXCEPT !.detect_lockfile = FALSE],
            [HealthyProject EXCEPT !.check_lockfile = None],
            [HealthyProject EXCEPT !.check_deps = None],
            [HealthyProject EXCEPT !.check_frameworks = None]}

\* Projects that drifted from the snapshot, for the callers that apply
DriftedProjects ==
    {Project(PackageJson("valid", e, f), FALSE, {}, NodeV16, ToolV10, "SpawnError", TRUE,
             Some(<<>>), Some(<<>>), Some(<<>>)) :
         e \in {None, Some(">=18.17.0")}, f \in {None, Some("pnpm@8.15.1")}}

(***************************************************************************)
(* Conflict parser: src/commands/resolve.rs                                *)
(***************************************************************************)

\* str::rfind(char): the last position of the character, 0 when there is none
RFind(text, c) ==
    The({IF \A i \in 1..Len(cs) : cs[i] # c THEN 0
         ELSE CHOOSE i \in 1..Len(cs) : cs[i] = c /\ \A j \in (i + 1)..Len(cs) : cs[j] # c :
             cs \in {text}})

\* A split at the first occurrence, as str::split_once does
RSplitOnceFirst(text, c) ==
    The({The({IF k = 0 THEN None
              ELSE Some(<<SubSeq(cs, 1, k - 1), SubSeq(cs, k + 1, Len(cs))>>) :
                  k \in {Find(cs, c)}}) :
             cs \in {text}})

\* str::rsplit_once(char): the text before and after the last occurrence
RSplitOnce(text, c) ==
    The({The({IF k = 0 THEN None
              ELSE Some(<<SubSeq(cs, 1, k - 1), SubSeq(cs, k + 1, Len(cs))>>) :
                  k \in {RFind(cs, c)}}) :
             cs \in {text}})

\* str::trim_end_matches(char)
RECURSIVE TrimEndMatches(_, _)
TrimEndMatches(text, c) ==
    The({IF cs # <<>> /\ cs[Len(cs)] = c THEN TrimEndMatches(SubSeq(cs, 1, Len(cs) - 1), c)
         ELSE cs :
             cs \in {text}})

\* str::trim_matches(char): the character is removed at both ends
TrimMatches(text, c) == TrimEndMatches(TrimStartMatches(text, <<c>>), c)

\* line.split(marker).nth(1): the text between the first and the second
\* occurrence of the marker
AfterMarker(line, marker) ==
    The({IF Len(pieces) >= 2 THEN Some(pieces[2]) ELSE None : pieces \in {SplitStr(line, marker)}})

\* DependencyConflict
DependencyConflict(package, current_version, conflicting_dep, required_range, actual_version) ==
    [package |-> package, current_version |-> current_version,
     conflicting_dep |-> conflicting_dep, required_range |-> required_range,
     actual_version |-> actual_version]

\* The locals of parse_npm_conflicts before the first line
ParserLocals ==
    [conflicts |-> <<>>, current_package |-> <<>>, conflicting_dep |-> <<>>,
     required_range |-> <<>>, actual_version |-> <<>>, suggested_version |-> <<>>,
     found_eresolve |-> FALSE, found_dep_from_found_line |-> <<>>]

\* if line.contains("ERESOLVE")
track_eresolve(locals, line) ==
    The({IF Contains(line, Chars("ERESOLVE")) THEN [l EXCEPT !.found_eresolve = TRUE] ELSE l :
             l \in {locals}})

\* if line.contains("While resolving:"): the name before the last '@'
while_resolving(locals, line) ==
    The({IF ~Contains(line, Chars("While resolving:")) THEN l
         ELSE The({IF ~IsSome(pkg) THEN l
                   ELSE The({IF IsSome(split) THEN [l EXCEPT !.current_package = Unwrap(split)[1]]
                             ELSE l :
                                 split \in {RSplitOnce(Trim(Unwrap(pkg)), "@")}}) :
                       pkg \in {AfterMarker(line, Chars("While resolving:"))}}) :
             l \in {locals}})

\* if line.contains("Found:") && !line.contains("node_modules")
found(locals, line) ==
    The({IF ~Contains(line, Chars("Found:")) \/ Contains(line, Chars("node_modules")) THEN l
         ELSE The({IF ~IsSome(pkg) THEN l
                   ELSE The({IF IsSome(split)
                             THEN [l EXCEPT !.conflicting_dep = Unwrap(split)[1],
                                            !.actual_version = Unwrap(split)[2],
                                            !.found_dep_from_found_line = Unwrap(split)[1]]
                             ELSE l :
                                 split \in {RSplitOnce(Trim(Unwrap(pkg)), "@")}}) :
                       pkg \in {AfterMarker(line, Chars("Found:"))}}) :
             l \in {locals}})

\* The position after the keyword of a peer line: after the first
\* "peerOptional ", else after the first "peer "
peer_start(line) ==
    The({IF optional > 0 THEN optional + 13 ELSE FindStr(line, Chars("peer ")) + 5 :
             optional \in {FindStr(line, Chars("peerOptional "))}})

\* if (line.contains("peer ") || line.contains("peerOptional ")) &&
\* line.contains(" from "): the requirement between the keyword and " from "
peer_requirement(locals, line) ==
    The({IF ~(/\ Contains(line, Chars("peer ")) \/ Contains(line, Chars("peerOptional "))
              /\ Contains(line, Chars(" from ")))
         THEN l
         ELSE The({The({IF from_idx = 0 THEN l
                        ELSE The({IF ~IsSome(split) THEN l
                                  ELSE The({IF /\ dep # <<>>
                                               /\ \/ dep = l.found_dep_from_found_line
                                                  \/ /\ l.required_range = <<>>
                                                     /\ l.conflicting_dep = dep
                                            THEN [l EXCEPT !.conflicting_dep = dep,
                                                           !.required_range = range]
                                            ELSE l :
                                                dep \in {Unwrap(split)[1]},
                                                range \in {TrimMatches(
                                                              TrimMatches(Unwrap(split)[2], "\""),
                                                              "'")}}) :
                                      split \in {RSplitOnce(
                                                    Trim(SubSeq(after_peer, 1, from_idx - 1)),
                                                    "@")}}) :
                            from_idx \in {FindStr(after_peer, Chars(" from "))}}) :
                       after_peer \in {SubSeq(line, peer_start(line), Len(line))}}) :
             l \in {locals}})

\* if line.contains("Conflicting peer dependency:"): the version npm suggests
conflicting_peer(locals, line) ==
    The({IF ~Contains(line, Chars("Conflicting peer dependency:")) THEN l
         ELSE The({IF ~IsSome(pkg) THEN l
                   ELSE The({IF /\ IsSome(split)
                                /\ \/ Unwrap(split)[1] = l.conflicting_dep
                                   \/ Unwrap(split)[1] = l.found_dep_from_found_line
                             THEN [l EXCEPT !.conflicting_dep = Unwrap(split)[1],
                                            !.suggested_version = Unwrap(split)[2]]
                             ELSE l :
                                 split \in {RSplitOnce(Trim(Unwrap(pkg)), "@")}}) :
                       pkg \in {AfterMarker(line, Chars("Conflicting peer dependency:"))}}) :
             l \in {locals}})

\* The conflict the locals describe
flush(l) ==
    DependencyConflict(l.conflicting_dep, l.actual_version, l.current_package, l.required_range,
                       IF l.suggested_version # <<>>
                       THEN l.actual_version \o Chars(" (suggested: ") \o l.suggested_version
                                \o <<")">>
                       ELSE l.actual_version)

\* if line.contains("Could not resolve dependency"): the end of a block
could_not_resolve(locals, line) ==
    The({IF /\ Contains(line, Chars("Could not resolve dependency"))
            /\ l.conflicting_dep # <<>>
            /\ l.actual_version # <<>>
         THEN [l EXCEPT !.conflicts = Append(@, flush(l)), !.suggested_version = <<>>]
         ELSE l :
             l \in {locals}})

\* The body of the loop over output.lines()
parse_line(locals, raw) ==
    The({could_not_resolve(
             conflicting_peer(
                 peer_requirement(
                     found(while_resolving(track_eresolve(locals, line), line), line),
                     line),
                 line),
             line) :
             line \in {Trim(raw)}})

\* parse_end without the test on the conflicts recorded so far
parse_end_unchecked(locals) ==
    The({IF /\ l.found_eresolve
            /\ l.conflicting_dep # <<>>
            /\ l.actual_version # <<>>
         THEN Append(l.conflicts, flush(l))
         ELSE l.conflicts :
             l \in {locals}})

\* After the loop: a block that met no terminator is kept when ERESOLVE was
\* seen and no conflict of that package was recorded
parse_end(locals) ==
    The({IF /\ l.found_eresolve
            /\ l.conflicting_dep # <<>>
            /\ l.actual_version # <<>>
            /\ \A i \in 1..Len(l.conflicts) : l.conflicts[i].package # l.conflicting_dep
         THEN Append(l.conflicts, flush(l))
         ELSE l.conflicts :
             l \in {locals}})

\* parse_npm_conflicts on a stream given as its lines
RECURSIVE parse_lines(_, _)
parse_lines(locals, lines) ==
    The({IF ls = <<>> THEN locals ELSE parse_lines(parse_line(locals, ls[1]), Tail(ls)) :
             ls \in {lines}})

parse_npm_conflicts(lines) == parse_end(parse_lines(ParserLocals, lines))

\* One conflict block as npm prints it.  `prefix` opens every line, `keyword`
\* is "peer " or "peerOptional ", `suggested` is the optional version of the
\* `Conflicting peer dependency:` line, `header` the optional ERESOLVE line
\* and `terminated` whether the block ends with its terminator line.
ConflictBlock(prefix, header, target, target_version, package, current, keyword, range,
              suggested, terminated) ==
    [prefix |-> prefix, header |-> header, target |-> target,
     target_version |-> target_version, package |-> package, current |-> current,
     keyword |-> keyword, range |-> range, suggested |-> suggested, terminated |-> terminated]

\* The lines of a block
BlockLines(b) ==
    LET p == Chars(b.prefix)
    IN  (IF b.header THEN <<p \o Chars("ERESOLVE") \o <<" ">> \o Chars("could not resolve")>>
         ELSE <<>>)
        \o <<p \o Chars("While resolving:") \o <<" ">> \o Chars(b.target) \o <<"@">>
               \o Chars(b.target_version),
             p \o Chars("Found:") \o <<" ">> \o Chars(b.package) \o <<"@">> \o Chars(b.current),
             p \o Chars(b.keyword) \o Chars(b.package) \o <<"@", "\"">> \o Chars(b.range)
               \o <<"\"">> \o Chars(" from ") \o Chars(b.target) \o <<"@">>
               \o Chars(b.target_version)>>
        \o (IF IsSome(b.suggested)
            THEN <<p \o Chars("Conflicting peer dependency:") \o <<" ">> \o Chars(b.package)
                     \o <<"@">> \o Chars(Unwrap(b.suggested))>>
            ELSE <<>>)
        \o (IF b.terminated THEN <<p \o Chars("Could not resolve dependency") \o <<":">>>>
            ELSE <<>>)

ConflictBlocks ==
    {ConflictBlock(prefix, header, target[1], target[2], package, "19.0.14", keyword, range,
                   suggested, terminated) :
         prefix \in {"", "npm error "}, header \in BOOLEAN,
         target \in {<<"react-native", "0.81.5">>, <<"@shopify/react-native-skia", "1.12.4">>},
         package \in {"react", "@types/react"}, keyword \in {"peer ", "peerOptional "},
         range \in {"^19.1.0", ">=18.0 <19.0.0"}, suggested \in {None, Some("19.2.8")},
         terminated \in BOOLEAN}

\* Most conflict blocks in one stream
MaxBlocks == 2

\* A block of a stream of several: with or without its ERESOLVE line, the
\* installed package of its Found line (None: no Found line), a peer line
\* naming that package ("own"), the other package ("other") or no peer line
\* ("none"), and the number of terminator lines that end it
StreamBlock(header, package, peer, terminators) ==
    [header |-> header, package |-> package, peer |-> peer, terminators |-> terminators]

\* The range each package is asked for in a peer line
PeerRange(package) == IF package = "react" THEN "^19.1.0" ELSE ">=18.0 <19.0.0"

OtherPackage(package) == IF package = "react" THEN "@types/react" ELSE "react"

\* The peer line on a package
PeerLine(package) ==
    Chars("npm error ") \o Chars("peer ") \o Chars(package) \o <<"@", "\"">>
        \o Chars(PeerRange(package)) \o <<"\"">> \o Chars(" from ") \o Chars("react-native")
        \o <<"@">> \o Chars("0.81.5")

\* The lines of a block of a stream
StreamBlockLines(b) ==
    (IF b.header
     THEN <<Chars("npm error ") \o Chars("ERESOLVE") \o <<" ">> \o Chars("could not resolve")>>
     ELSE <<>>)
    \o <<Chars("npm error ") \o Chars("While resolving:") \o <<" ">> \o Chars("react-native")
           \o <<"@">> \o Chars("0.81.5")>>
    \o (IF IsSome(b.package)
        THEN <<Chars("npm error ") \o Chars("Found:") \o <<" ">> \o Chars(Unwrap(b.package))
                 \o <<"@">> \o Chars("19.0.14")>>
        ELSE <<>>)
    \o (IF b.peer = "own" /\ IsSome(b.package) THEN <<PeerLine(Unwrap(b.package))>>
        ELSE IF b.peer = "other" /\ IsSome(b.package)
        THEN <<PeerLine(OtherPackage(Unwrap(b.package)))>>
        ELSE <<>>)
    \o [i \in 1..b.terminators |->
           Chars("npm error ") \o Chars("Could not resolve dependency") \o <<":">>]

StreamBlocks ==
    {StreamBlock(TRUE, Some(package), peer, terminators) :
         package \in {"react", "@types/react"}, peer \in {"own", "other", "none"},
         terminators \in {0, 1, 2}}
        \cup {StreamBlock(FALSE, Some("react"), "own", 0),
              StreamBlock(FALSE, Some("react"), "own", 1),
              StreamBlock(FALSE, Some("@types/react"), "none", 0),
              StreamBlock(TRUE, None, "none", 0),
              StreamBlock(TRUE, None, "none", 1)}

\* The lines of a stream of blocks
RECURSIVE StreamLines(_)
StreamLines(blocks) ==
    IF blocks = <<>> THEN <<>> ELSE StreamBlockLines(blocks[1]) \o StreamLines(Tail(blocks))

\* The parser at rest
IdleParser == [pc |-> "idle", input |-> None, lines |-> <<>>, locals |-> ParserLocals,
               conflicts |-> None]

\* One iteration of the loop of parse_npm_conflicts
ParseLine ==
    /\ parser.pc = "lines"
    /\ parser.lines # <<>>
    /\ parser' = [parser EXCEPT !.locals = parse_line(parser.locals, parser.lines[1]),
                                !.lines = Tail(parser.lines)]
    /\ UNCHANGED <<rangeVars, hashVars, saveVars, commandVars, configVars, verifyVars, searchVars, serverVars, pipeVars, projectVars, schemaVars, planVars, execVars, applyVars>>

\* The end of parse_npm_conflicts: the last flush and the return
ParseEnd ==
    /\ parser.pc = "lines"
    /\ parser.lines = <<>>
    /\ parser' = [parser EXCEPT !.pc = "done", !.conflicts = Some(parse_end(parser.locals))]
    /\ UNCHANGED <<rangeVars, hashVars, saveVars, commandVars, configVars, verifyVars, searchVars, serverVars, pipeVars, projectVars, schemaVars, planVars, execVars, applyVars>>

(***************************************************************************)
(* Range checks of the resolvers: src/commands/resolve.rs and              *)
(* src/mcp/handlers.rs                                                     *)
(***************************************************************************)

\* Largest component of the versions that are checked against a range
MaxComponent == 2

\* The decimal text of a number, as format! writes it
RECURSIVE DecimalText(_)
DecimalText(n) ==
    LET digit(k) == <<"0", "1", "2", "3", "4", "5", "6", "7", "8", "9">>[k + 1]
    IN  IF n < 10 THEN <<digit(n)>> ELSE DecimalText(n \div 10) \o <<digit(n % 10)>>

\* The dotted text of a sequence of numbers: 1.2.3 of <<1, 2, 3>>
RECURSIVE DottedText(_)
DottedText(numbers) ==
    IF Len(numbers) = 1 THEN DecimalText(numbers[1])
    ELSE DecimalText(numbers[1]) \o <<".">> \o DottedText(Tail(numbers))

\* str::strip_prefix: the rest of the text, when it starts with the prefix
StripPrefix(text, prefix) ==
    The({IF StartsWith(cs, prefix) THEN Some(SubSeq(cs, Len(prefix) + 1, Len(cs))) ELSE None :
             cs \in {text}})

\* <u64 as FromStr>::from_str, which agrees with u32 on the digit strings
\* the model writes
ParseU64(p) == ParseU32(p)

\* .filter_map(|p| p.parse().ok()): the pieces that parse, as numbers
RECURSIVE ParsedParts(_)
ParsedParts(pieces) ==
    The({IF ps = <<>> THEN <<>>
         ELSE The({(IF IsSome(n) THEN <<Unwrap(n)>> ELSE <<>>) \o ParsedParts(Tail(ps)) :
                      n \in {ParseU64(ps[1])}}) :
             ps \in {pieces}})

\* parts.get(i).copied().unwrap_or(0) for the first three parts
FirstThree(parts) ==
    The({<<IF Len(ps) >= 1 THEN ps[1] ELSE 0, IF Len(ps) >= 2 THEN ps[2] ELSE 0,
           IF Len(ps) >= 3 THEN ps[3] ELSE 0>> : ps \in {parts}})

\* The closure parse of compare_versions and of matches_version_constraint:
\* the text before the first '-', split at '.', the parts that are numbers
parse(s) == ParsedParts(SplitOn(SplitOn(s, "-")[1], "."))

\* parse_ver keeping the major part only
parse_ver_major_only(s) == <<FirstThree(parse(TrimStartMatches(s, <<"v">>)))[1], 0, 0>>

\* The closure parse_ver of version_satisfies: as parse, after leading v's
parse_ver(s) == FirstThree(parse(TrimStartMatches(s, <<"v">>)))

\* compare_versions: the order of the first three parts
compare_versions(a, b) ==
    The({IF VersionLess(va, vb) THEN "Less" ELSE IF VersionLess(vb, va) THEN "Greater"
         ELSE "Equal" :
             va \in {FirstThree(parse(a))}, vb \in {FirstThree(parse(b))}})

\* version_satisfies of src/commands/resolve.rs
RECURSIVE version_satisfies(_, _)
version_satisfies(version, text) ==
    The({IF range = <<"*">> \/ range = <<>> THEN TRUE
         ELSE IF Contains(range, <<" ">>)
         THEN The({\A i \in 1..Len(parts) : version_satisfies(version, parts[i]) :
                      parts \in {SplitWhitespace(range)}})
         ELSE IF StartsWith(range, <<"^">>)
         THEN The({IF t[1] = 0 THEN v[1] = 0 /\ v[2] = t[2] /\ v[3] >= t[3]
                   ELSE v[1] = t[1] /\ (v[2] > t[2] \/ (v[2] = t[2] /\ v[3] >= t[3])) :
                       t \in {parse_ver(Unwrap(StripPrefix(range, <<"^">>)))}})
         ELSE IF StartsWith(range, <<"~">>)
         THEN The({v[1] = t[1] /\ v[2] = t[2] /\ v[3] >= t[3] :
                      t \in {parse_ver(Unwrap(StripPrefix(range, <<"~">>)))}})
         ELSE IF StartsWith(range, <<">", "=">>)
         THEN The({\/ v[1] > t[1]
                   \/ (v[1] = t[1] /\ v[2] > t[2])
                   \/ (v[1] = t[1] /\ v[2] = t[2] /\ v[3] >= t[3]) :
                      t \in {parse_ver(Unwrap(StripPrefix(range, <<">", "=">>)))}})
         ELSE IF StartsWith(range, <<"<">>)
         THEN The({\/ v[1] < t[1]
                   \/ (v[1] = t[1] /\ v[2] < t[2])
                   \/ (v[1] = t[1] /\ v[2] = t[2] /\ v[3] < t[3]) :
                      t \in {parse_ver(TrimStartMatches(Unwrap(StripPrefix(range, <<"<">>)),
                                                        <<"=">>))}})
         ELSE The({v[1] = t[1] /\ v[2] = t[2] /\ v[3] = t[3] : t \in {parse_ver(range)}}) :
             range \in {Trim(text)}, v \in {parse_ver(version)}})

\* The (operator, target) pair matches_version_constraint starts with
operator_and_target(constraint) ==
    The({IF StartsWith(c, <<">", "=">>) THEN <<">=", SubSeq(c, 3, Len(c))>>
         ELSE IF StartsWith(c, <<"<", "=">>) THEN <<"<=", SubSeq(c, 3, Len(c))>>
         ELSE IF StartsWith(c, <<"^">>) THEN <<"^", SubSeq(c, 2, Len(c))>>
         ELSE IF StartsWith(c, <<"~">>) THEN <<"~", SubSeq(c, 2, Len(c))>>
         ELSE IF StartsWith(c, <<">">>) THEN <<">", SubSeq(c, 2, Len(c))>>
         ELSE IF StartsWith(c, <<"<">>) THEN <<"<", SubSeq(c, 2, Len(c))>>
         ELSE <<"=", c>> :
             c \in {constraint}})

\* matches_version_constraint of src/mcp/handlers.rs
matches_version_constraint(version, constraint) ==
    The({The({CASE operator = "=" -> v = t
                [] operator = ">" -> compare_versions(version, target) = "Greater"
                [] operator = ">=" -> compare_versions(version, target) # "Less"
                [] operator = "<" -> compare_versions(version, target) = "Less"
                [] operator = "<=" -> compare_versions(version, target) # "Greater"
                [] operator = "^" ->
                       IF t[1] = 0 THEN v[1] = 0 /\ v[2] = t[2] /\ v[3] >= t[3]
                       ELSE v[1] = t[1] /\ (v[2] > t[2] \/ (v[2] = t[2] /\ v[3] >= t[3]))
                [] operator = "~" -> v[1] = t[1] /\ v[2] = t[2] /\ v[3] >= t[3] :
                  v \in {FirstThree(parse(version))}, t \in {FirstThree(parse(target))}}) :
             operator \in {operator_and_target(Trim(constraint))[1]},
             target \in {Trim(operator_and_target(Trim(constraint))[2])}})

\* A range as the grammar builds it: a comparator with its target version,
\* a space-separated list, a ||-separated list, or a word
Comparator(op, target) == [kind |-> "comparator", op |-> op, target |-> target]
AllOf(parts) == [kind |-> "and", parts |-> parts]
AnyOf(parts) == [kind |-> "or", parts |-> parts]
RangeWord(word) == [kind |-> "word", word |-> word]

\* The text of a comparator or of a word
PartText(part) ==
    IF part.kind = "word" THEN Chars(part.word)
    ELSE (CASE part.op = "=" -> <<>>
            [] part.op = ">" -> <<">">>
            [] part.op = ">=" -> <<">", "=">>
            [] part.op = "<" -> <<"<">>
            [] part.op = "<=" -> <<"<", "=">>
            [] part.op = "^" -> <<"^">>
            [] part.op = "~" -> <<"~">>) \o DottedText(part.target)

\* The parts of a list joined by the separator
RECURSIVE JoinParts(_, _)
JoinParts(parts, separator) ==
    IF Len(parts) = 1 THEN PartText(parts[1])
    ELSE PartText(parts[1]) \o separator \o JoinParts(Tail(parts), separator)

\* The text of a range
RangeText(range) ==
    CASE range.kind = "and" -> JoinParts(range.parts, <<" ">>)
      [] range.kind = "or" -> JoinParts(range.parts, Chars(" || "))
      [] OTHER -> PartText(range)

Operators == {"=", ">", ">=", "<", "<=", "^", "~"}

\* Target versions: below 1.0.0, above it, and one written with two parts
Targets == {<<0, 1, 1>>, <<1, 0, 0>>, <<1, 1, 1>>, <<1, 1>>}

CheckedVersions == {<<a, b, c>> : a \in 0..MaxComponent, b \in 0..MaxComponent, c \in 0..MaxComponent}

CheckedRanges ==
    {Comparator(op, t) : op \in Operators, t \in Targets}
        \cup {AllOf(<<Comparator(">=", a), Comparator("<", b)>>) : a \in Targets, b \in Targets}
        \cup {AllOf(<<Comparator("^", <<1, 0, 0>>), Comparator("~", <<1, 1, 1>>)>>)}
        \cup {AnyOf(<<Comparator("^", <<0, 1, 1>>), Comparator(op, <<1, 1, 1>>)>>) :
                  op \in {"^", ">="}}
        \cup {AnyOf(<<RangeWord("latest"), RangeWord("next")>>), RangeWord("*")}

\* The range check at rest
IdleRanges == [version |-> <<0, 0, 0>>, range |-> RangeWord("*"), cli |-> None, mcp |-> None]

\* `zenvo resolve` asks version_satisfies
VersionSatisfies ==
    /\ ranges.cli = None
    /\ ranges' = [ranges EXCEPT !.cli = Some(version_satisfies(DottedText(ranges.version),
                                                              RangeText(ranges.range)))]
    /\ UNCHANGED <<resolveVars, hashVars, saveVars, commandVars, configVars, verifyVars, searchVars, serverVars, pipeVars, projectVars, schemaVars, planVars, execVars, applyVars>>

\* The MCP resolver asks matches_version_constraint
MatchesVersionConstraint ==
    /\ ranges.mcp = None
    /\ ranges' = [ranges EXCEPT !.mcp = Some(matches_version_constraint(
                                                DottedText(ranges.version),
                                                RangeText(ranges.range)))]
    /\ UNCHANGED <<resolveVars, hashVars, saveVars, commandVars, configVars, verifyVars, searchVars, serverVars, pipeVars, projectVars, schemaVars, planVars, execVars, applyVars>>

(***************************************************************************)
(* Resolution search of the resolvers: find_resolution of                  *)
(* src/commands/resolve.rs and find_conflict_resolution of                 *)
(* src/mcp/handlers.rs                                                     *)
(***************************************************************************)

\* Largest number of versions the registry document of a package lists
MaxVersions == 2

\* One member of "versions" in the registry document: its key, and its
\* peerDependencies: whether the object is there, and the requirement it
\* puts on the conflicting dependency
RegistryVersion(key, peer_object, requirement) ==
    [key |-> key, peer_object |-> peer_object, requirement |-> requirement]

\* A conflict as parse_npm_conflicts builds it: the version found installed
\* is current_version, and actual_version with the suggestion behind it
SearchedConflict(current_version, required_range, suggested_version) ==
    DependencyConflict(Chars("@types/react"), current_version, Chars("react"), required_range,
                       IF suggested_version # <<>>
                       THEN current_version \o Chars(" (suggested: ") \o suggested_version
                                \o <<")">>
                       ELSE current_version)

\* The same conflict as parse_npm_conflicts_from_output builds it
McpConflict(conflict) ==
    [package |-> conflict.package, current_version |-> conflict.current_version,
     conflicting_dep |-> conflict.conflicting_dep, required_range |-> conflict.required_range,
     actual_version |-> conflict.current_version]

ConflictResolution(conflict, suggested_version, reason) ==
    [package |-> conflict.package, current_version |-> conflict.current_version,
     suggested_version |-> suggested_version, reason |-> reason]

\* Vec::insert of one member behind the members that are not older
RECURSIVE insert_newest_first(_, _)
insert_newest_first(sorted, member) ==
    IF sorted = <<>> THEN <<member>>
    ELSE IF compare_versions(sorted[1].key, member.key) = "Less" THEN <<member>> \o sorted
    ELSE <<sorted[1]>> \o insert_newest_first(Tail(sorted), member)

\* version_list.sort_by(|a, b| compare_versions(b, a)): a stable sort,
\* newest first, of the members in the order versions.keys() gives them
RECURSIVE sort_newest_first(_)
sort_newest_first(members) ==
    IF members = <<>> THEN <<>>
    ELSE insert_newest_first(sort_newest_first(SubSeq(members, 1, Len(members) - 1)),
                             members[Len(members)])

\* The first index of a list that is in the set, if any
FirstIn(indices) ==
    IF indices = {} THEN None ELSE Some(CHOOSE i \in indices : \A j \in indices : i <= j)

\* find_resolution, after the registry answered: versions is None when the
\* request failed or the document has no "versions" object
find_resolution(conflict, versions) ==
    IF versions = None THEN None
    ELSE The({The({IF IsSome(direct)
                   THEN Some(ConflictResolution(conflict, version_list[Unwrap(direct)].key,
                                                "requires"))
                   ELSE IF IsSome(library)
                   THEN Some(ConflictResolution(conflict, version_list[Unwrap(library)].key,
                             IF IsSome(version_list[Unwrap(library)].requirement)
                             THEN "supports" ELSE "has no peer requirement"))
                   ELSE None :
                      direct \in {FirstIn({i \in 1..Len(version_list) :
                          /\ conflict.required_range # <<>>
                          /\ ~(Contains(version_list[i].key, <<"-">>)
                                 /\ ~Contains(conflict.current_version, <<"-">>))
                          /\ version_satisfies(version_list[i].key, conflict.required_range)})},
                      library \in {FirstIn({i \in 1..Len(version_list) :
                          /\ ~(Contains(version_list[i].key, <<"-">>)
                                 /\ ~Contains(conflict.current_version, <<"-">>))
                          /\ version_list[i].peer_object
                          /\ \/ version_list[i].requirement = None
                             \/ version_satisfies(SplitStr(conflict.actual_version, <<" ", "(">>)[1],
                                                  Unwrap(version_list[i].requirement))})}}) :
                 version_list \in {sort_newest_first(Unwrap(versions))}})

\* find_conflict_resolution, after the registry answered
find_conflict_resolution(conflict, versions) ==
    IF versions = None THEN None
    ELSE The({The({IF IsSome(direct)
                   THEN Some([package |-> conflict.package,
                              current_version |-> conflict.actual_version,
                              suggested_version |-> version_list[Unwrap(direct)].key,
                              reason |-> "requires"])
                   ELSE IF IsSome(library)
                   THEN Some([package |-> conflict.package,
                              current_version |-> conflict.actual_version,
                              suggested_version |-> version_list[Unwrap(library)].key,
                              reason |-> "supports"])
                   ELSE None :
                      direct \in {FirstIn({i \in 1..Len(version_list) :
                          /\ conflict.required_range # <<>>
                          /\ ~Contains(version_list[i].key, <<"-">>)
                          /\ matches_version_constraint(version_list[i].key,
                                                        conflict.required_range)})},
                      library \in {FirstIn({i \in 1..Len(version_list) :
                          /\ ~Contains(version_list[i].key, <<"-">>)
                          /\ version_list[i].peer_object
                          /\ IsSome(version_list[i].requirement)
                          /\ matches_version_constraint(conflict.actual_version,
                                 Unwrap(version_list[i].requirement))})}}) :
                 version_list \in {sort_newest_first(Unwrap(versions))}})

\* The keys of the registry documents: three releases and a pre-release
RegistryKeys ==
    {DottedText(<<1, 0, 0>>), DottedText(<<1, 1, 0>>), DottedText(<<2, 0, 0>>),
     DottedText(<<2, 1, 0>>) \o Chars("-beta")}

\* What a version declares about the conflicting dependency: no
\* peerDependencies at all, peerDependencies without it, or a range for it
PeerDeclarations ==
    {<<FALSE, None>>, <<TRUE, None>>, <<TRUE, Some(<<"^">> \o DottedText(<<1, 0, 0>>))>>,
     <<TRUE, Some(<<"^">> \o DottedText(<<2, 0, 0>>))>>}

RegistryVersions ==
    {RegistryVersion(k, p[1], p[2]) : k \in RegistryKeys, p \in PeerDeclarations}

\* The registry documents: the request fails, or up to MaxVersions members
\* with different keys, in the order the map of the document keeps them
RegistryDocuments ==
    {None} \cup
    {Some(members) : members \in
        {m \in SeqsUpTo(RegistryVersions, MaxVersions) :
            /\ m # <<>>
            /\ \A i \in 1..Len(m), j \in 1..Len(m) : i # j => m[i].key # m[j].key}}

\* The conflicts: the installed version a release or a pre-release, with and
\* without a required range, with and without a suggestion of npm
SearchedConflicts ==
    {SearchedConflict(current, range, suggested) :
        current \in {DottedText(<<1, 0, 0>>), DottedText(<<1, 0, 0>>) \o Chars("-rc")},
        range \in {<<>>, <<"^">> \o DottedText(<<1, 0, 0>>), <<"^">> \o DottedText(<<2, 0, 0>>)},
        suggested \in {<<>>, DottedText(<<2, 0, 0>>)}}

\* The search at rest
Searching(conflict, versions, cli, mcp) ==
    [conflict |-> conflict, versions |-> versions, cli |-> cli, mcp |-> mcp]

IdleSearching == Searching(SearchedConflict(DottedText(<<1, 0, 0>>), <<>>, <<>>), None, None, None)

\* zenvo resolve searches a resolution of the conflict
FindResolution ==
    /\ searching.cli = None
    /\ searching' = [searching EXCEPT
           !.cli = Some(find_resolution(searching.conflict, searching.versions))]
    /\ UNCHANGED <<verifyVars, configVars, commandVars, saveVars, hashVars, rangeVars, resolveVars, serverVars, pipeVars, projectVars, schemaVars, planVars, execVars, applyVars>>

\* The resolve_conflicts tool searches a resolution of the same conflict
FindConflictResolution ==
    /\ searching.mcp = None
    /\ searching' = [searching EXCEPT
           !.mcp = Some(find_conflict_resolution(McpConflict(searching.conflict),
                                                 searching.versions))]
    /\ UNCHANGED <<verifyVars, configVars, commandVars, saveVars, hashVars, rangeVars, resolveVars, serverVars, pipeVars, projectVars, schemaVars, planVars, execVars, applyVars>>

(***************************************************************************)
(* Dependency-tree hash: src/lockfile/mod.rs                               *)
(***************************************************************************)

\* How often the hash of one tree is computed
MaxRuns == 2

\* The entries of the pnpm store directory that are looked at: .take(1000)
StoreEntryLimit == 1000

\* The characters of package names and versions in byte order
ByteOrder ==
    <<"+", "-", ".", "/", "0", "1", "2", "3", "4", "5", "6", "7", "8", "9", "@", "a", "b", "c",
      "d", "e", "f", "g", "h", "i", "j", "k", "l", "m", "n", "o", "p", "q", "r", "s", "t", "u",
      "v", "w", "x", "y", "z">>

Byte(c) == CHOOSE i \in 1..Len(ByteOrder) : ByteOrder[i] = c

\* <str as Ord>::lt: the order of the bytes, a proper prefix first
RECURSIVE StrLess(_, _)
StrLess(a, b) ==
    The({IF y = <<>> THEN FALSE
         ELSE IF x = <<>> THEN TRUE
         ELSE IF x[1] # y[1] THEN Byte(x[1]) < Byte(y[1])
         ELSE StrLess(Tail(x), Tail(y)) :
             x \in {a}, y \in {b}})

\* str::replace(char, &str)
Replace(text, c, with) ==
    The({[i \in 1..Len(cs) |-> IF cs[i] = c THEN with ELSE cs[i]] : cs \in {text}})

\* A directory of node_modules: its name, the version in the package.json
\* behind it (symbolic links followed) if there is one, and for a scope
\* directory the packages inside
Entry(name, version, children) == [name |-> name, version |-> version, children |-> children]

\* One name@version string of the package list
Token(text) == [kind |-> "token", text |-> text]

\* A run of directories of the pnpm store named zz-pkg-<i>@1.0.0 for i in
\* first..last, and the package strings they give
Run(first, last) == [kind |-> "run", first |-> first, last |-> last]

\* A directory of the pnpm store
StoreDir(name) == [kind |-> "dir", name |-> name]

\* All orders in which read_dir may return the entries of a directory
Listings(entries) ==
    {l \in [1..Cardinality(entries) -> entries] :
         \A i, j \in 1..Cardinality(entries) : l[i] = l[j] => i = j}

\* Iterator::take over a listing with runs
RECURSIVE Take(_, _)
Take(listing, n) ==
    The({IF l = <<>> \/ n = 0 THEN <<>>
         ELSE IF l[1].kind # "run" THEN <<l[1]>> \o Take(Tail(l), n - 1)
         ELSE IF l[1].last - l[1].first + 1 <= n
         THEN <<l[1]>> \o Take(Tail(l), n - (l[1].last - l[1].first + 1))
         ELSE <<Run(l[1].first, l[1].first + n - 1)>> :
             l \in {listing}})

\* parse_pnpm_package_dir: Some(<<name, version>>) of a directory name.  The
\* scoped and the regular branch differ by the replacement of + only.
parse_pnpm_package_dir(dir_name) ==
    The({IF StartsWith(name, <<".">>) \/ Find(name, "@") = 0 THEN None
         ELSE The({IF /\ last_at > 1
                      /\ last_at < Len(name)
                      /\ IsDigit(name[last_at + 1])
                   THEN IF StartsWith(name, <<"@">>) \/ Find(name, "+") > 0
                        THEN Some(<<Replace(SubSeq(name, 1, last_at - 1), "+", "/"),
                                    SubSeq(name, last_at + 1, Len(name))>>)
                        ELSE Some(<<SubSeq(name, 1, last_at - 1),
                                    SubSeq(name, last_at + 1, Len(name))>>)
                   ELSE None :
                       last_at \in {RFind(name, "@")}}) :
             name \in {dir_name}})

\* The package strings of a listing of the store, in listing order
RECURSIVE store_packages(_)
store_packages(listing) ==
    The({IF l = <<>> THEN <<>>
         ELSE IF l[1].kind = "run" THEN <<l[1]>> \o store_packages(Tail(l))
         ELSE The({(IF IsSome(parsed)
                    THEN <<Token(Unwrap(parsed)[1] \o <<"@">> \o Unwrap(parsed)[2])>>
                    ELSE <<>>) \o store_packages(Tail(l)) :
                       parsed \in {parse_pnpm_package_dir(l[1].name)}}) :
             l \in {listing}})

\* enumerate_pnpm_store_packages: None without the directory or without a
\* package among its first entries
enumerate_pnpm_store_packages(store) ==
    IF ~IsSome(store) THEN None
    ELSE The({IF packages = <<>> THEN None ELSE Some(packages) :
                 packages \in {store_packages(Take(Unwrap(store), StoreEntryLimit))}})

\* The packages inside a scope directory, in listing order
RECURSIVE scoped_packages(_, _)
scoped_packages(scope, listing) ==
    The({IF l = <<>> THEN <<>>
         ELSE (IF IsSome(l[1].version)
               THEN <<Token(scope \o <<"/">> \o l[1].name \o <<"@">> \o Unwrap(l[1].version))>>
               ELSE <<>>) \o scoped_packages(scope, Tail(l)) :
             l \in {listing}})

\* The loop over the entries of node_modules
RECURSIVE top_level_packages(_, _)
top_level_packages(listing, scoped) ==
    The({IF l = <<>> THEN <<>>
         ELSE (IF StartsWith(l[1].name, <<".">>) THEN <<>>
               ELSE IF StartsWith(l[1].name, <<"@">>) THEN scoped_packages(l[1].name, scoped)
               ELSE IF IsSome(l[1].version)
               THEN <<Token(l[1].name \o <<"@">> \o Unwrap(l[1].version))>>
               ELSE <<>>) \o top_level_packages(Tail(l), scoped) :
             l \in {listing}})

\* if !packages.contains(&pkg) { packages.push(pkg) } for every pkg
RECURSIVE push_missing(_, _)
push_missing(packages, more) ==
    The({IF m = <<>> THEN packages
         ELSE IF \E i \in 1..Len(packages) : packages[i] = m[1]
         THEN push_missing(packages, Tail(m))
         ELSE push_missing(Append(packages, m[1]), Tail(m)) :
             m \in {more}})

\* The order of packages.sort(): the strings by their bytes; the strings of
\* a run start with zz and follow the others
PackageLess(a, b) ==
    IF a.kind = "token" /\ b.kind = "token" THEN StrLess(a.text, b.text)
    ELSE IF a.kind = "run" /\ b.kind = "run" THEN a.first < b.first
    ELSE a.kind = "token"

\* <[String]>::sort
RECURSIVE Sorted(_)
Sorted(packages) ==
    The({IF ps = <<>> THEN <<>>
         ELSE The({SelectSeq(rest, LAMBDA p : PackageLess(p, ps[1])) \o <<ps[1]>>
                       \o SelectSeq(rest, LAMBDA p : ~PackageLess(p, ps[1])) :
                      rest \in {Sorted(Tail(ps))}}) :
             ps \in {packages}})

\* Sha256 over the strings, each followed by a line feed, written as
\* sha256:<hex>; two hashes are equal when the streams are
Sha256(packages) == [sha256 |-> packages]

\* What read_dir returns for node_modules, for its scope directory and for
\* the pnpm store; the last is None when there is no .pnpm
DirListings(top, scoped, store) == [top |-> top, scoped |-> scoped, store |-> store]

\* compute_node_modules_hash on the listings of a tree that has node_modules
compute_node_modules_hash(listings) ==
    The({IF packages = <<>> THEN None ELSE Some(Sha256(Sorted(packages))) :
             packages \in
                 {The({IF IsSome(listings.store) /\ IsSome(pnpm_packages)
                       THEN push_missing(top, Unwrap(pnpm_packages))
                       ELSE top :
                           top \in {top_level_packages(listings.top, listings.scoped)},
                           pnpm_packages \in {enumerate_pnpm_store_packages(listings.store)}})}})

\* An installed tree: the entries of node_modules, the packages of its scope
\* directory, and the entries of node_modules/.pnpm when it exists
Tree(top, scoped, store) == [top |-> top, scoped |-> scoped, store |-> store]

Lodash == Entry(Chars("lodash"), Some(Chars("4.17.21")), {})
React == Entry(Chars("react"), Some(Chars("18.2.0")), {})
Broken == Entry(Chars("broken"), None, {})
DotBin == Entry(Chars(".bin"), None, {})
DotPnpm == Entry(Chars(".pnpm"), None, {})
TypesScope == Entry(Chars("@types"), None, {})
TypesNode == Entry(Chars("node"), Some(Chars("18.0.0")), {})
TypesReact == Entry(Chars("react"), Some(Chars("18.2.0")), {})

\* Stores: a few directories; exactly as many as are looked at; one more
SmallStore == {StoreDir(Chars("lodash@4.17.21")), StoreDir(Chars("@types+node@18.0.0")),
               StoreDir(Chars("lock.yaml"))}
FullStore == {StoreDir(Chars("react@18.2.0")), Run(1, StoreEntryLimit - 1)}
LargeStore == {StoreDir(Chars("lodash@4.17.21")), StoreDir(Chars("react@18.2.0")),
               Run(1, StoreEntryLimit - 1)}

Trees ==
    {Tree(top, {TypesNode, TypesReact}, None) :
         top \in {{Lodash, React, DotBin}, {Lodash, TypesScope}, {React, Broken, TypesScope},
                  {DotBin}}}
        \cup {Tree(top \cup {DotPnpm}, {TypesNode}, Some(store)) :
                  top \in {{Lodash}, {React, TypesScope}},
                  store \in {SmallStore, FullStore, LargeStore}}

\* The hash computation at rest
IdleHashing == [tree |-> Tree({}, {}, None), listings |-> None, hashes |-> <<>>]

\* compute_node_modules_hash on the tree, with the order read_dir happens to
\* return for each directory
ComputeNodeModulesHash ==
    /\ Len(hashing.hashes) < MaxRuns
    /\ hashing.tree.top # {}
    /\ \E top \in Listings(hashing.tree.top), scoped \in Listings(hashing.tree.scoped),
          store \in (IF IsSome(hashing.tree.store)
                     THEN {Some(l) : l \in Listings(Unwrap(hashing.tree.store))}
                     ELSE {None}) :
           hashing' = [hashing EXCEPT
                           !.listings = Some(DirListings(top, scoped, store)),
                           !.hashes = Append(@, compute_node_modules_hash(
                                                    DirListings(top, scoped, store)))]
    /\ UNCHANGED <<rangeVars, resolveVars, saveVars, commandVars, configVars, verifyVars, searchVars, serverVars, pipeVars, projectVars, schemaVars, planVars, execVars, applyVars>>

(***************************************************************************)
(* Saving a snapshot: EnvLock::save in src/lockfile/mod.rs                 *)
(***************************************************************************)

\* A line of text without values, and a key = "value" line
Line(text) == <<text>>
KeyValue(key, value) == <<key, " = ", value>>

\* The header comment and the blank line after it; the command it names
\* stands in backquotes in the source
header ==
    <<Line("# env.lock - Generated by Zenvo"),
      <<"# DO NOT EDIT MANUALLY - Regenerate with ", "zenvo lock">>,
      Line("")>>

\* toml::to_string_pretty of an EnvLock: a table per section, a field that
\* is None left out
to_string_pretty(lock) ==
    <<Line("[metadata]"), KeyValue("version", lock.version), Line(""), Line("[toolchain]"),
      KeyValue("node", lock.toolchain.node)>>
        \o (IF IsSome(lock.toolchain.node_version_source)
            THEN <<KeyValue("node_version_source", Unwrap(lock.toolchain.node_version_source))>>
            ELSE <<>>)
        \o <<KeyValue("package_manager", lock.toolchain.package_manager),
             KeyValue("package_manager_version", lock.toolchain.package_manager_version)>>

\* format!("{}{}", header, content)
full_content(lock) == header \o to_string_pretty(lock)

\* The snapshots that are saved
SavedLocks ==
    {EnvLock(<<"1", ".", "0">>, Toolchain(node, source, "npm", "10.2.4")) :
         node \in {"20.11.0", "18.19.0"}, source \in {None, Some(".nvmrc")}}

\* The file at the target path (None: no file), the file as it was before
\* save, the text being written and where save stands
Saving(file, previous, content, at, result) ==
    [file |-> file, previous |-> previous, content |-> content, pc |-> at, result |-> result]

IdleSaving == Saving(None, None, <<>>, "idle", NotCalled)

\* fs::write, first half: File::create opens the path with create and
\* truncate, or fails and leaves the path alone
SaveCreate ==
    /\ saving.pc = "idle"
    /\ \E lock \in SavedLocks :
           \/ saving' = Saving(Some(<<>>), saving.file, full_content(lock), "writing", NotCalled)
           \/ saving' = Saving(saving.file, saving.file, full_content(lock), "returned",
                               Err("save", "Failed to write env.lock"))
    /\ UNCHANGED <<resolveVars, rangeVars, hashVars, commandVars, configVars, verifyVars, searchVars, serverVars, pipeVars, projectVars, schemaVars, planVars, execVars, applyVars>>

\* fs::write, second half: write_all calls write until the buffer is out;
\* one call takes some of what is left, or fails
SaveWrite ==
    /\ saving.pc = "writing"
    /\ \E written \in {Len(Unwrap(saving.file))} :
           IF written = Len(saving.content)
           THEN saving' = [saving EXCEPT !.pc = "returned", !.result = Ok("save", None)]
           ELSE \/ \E n \in 1..(Len(saving.content) - written) :
                       saving' = [saving EXCEPT
                                      !.file = Some(Unwrap(@)
                                                    \o SubSeq(saving.content, written + 1, written + n))]
                \/ saving' = [saving EXCEPT !.pc = "returned",
                                            !.result = Err("save", "Failed to write env.lock")]
    /\ UNCHANGED <<resolveVars, rangeVars, hashVars, commandVars, configVars, verifyVars, searchVars, serverVars, pipeVars, projectVars, schemaVars, planVars, execVars, applyVars>>

\* The process is interrupted in the middle of save
SaveInterrupted ==
    /\ saving.pc = "writing"
    /\ saving' = [saving EXCEPT !.pc = "interrupted"]
    /\ UNCHANGED <<resolveVars, rangeVars, hashVars, commandVars, configVars, verifyVars, searchVars, serverVars, pipeVars, projectVars, schemaVars, planVars, execVars, applyVars>>

(***************************************************************************)
(* External commands: src/utils/mod.rs and the call sites that spawn       *)
(***************************************************************************)

\* Seconds
SHORT_COMMAND_TIMEOUT == 5
DEFAULT_COMMAND_TIMEOUT == 30

\* A place where the engine starts a child process: the command line and
\* Some(timeout) when it goes through run_command_with_timeout, None when
\* it calls Command::output
Site(by, command, timeout) == [caller |-> by, command |-> command, timeout |-> timeout]

\* The calls of run_command_with_timeout
TimedSites ==
    {Site("detect_node_version", <<"node", "--version">>, Some(SHORT_COMMAND_TIMEOUT)),
     Site("get_tool_version", <<"npm", "--version">>, Some(SHORT_COMMAND_TIMEOUT)),
     Site("detect_pnpm_store_path", <<"pnpm", "store", "path">>, Some(SHORT_COMMAND_TIMEOUT)),
     Site("check_peer_dependencies", <<"npm", "ls", "--json", "--depth=1">>,
          Some(DEFAULT_COMMAND_TIMEOUT))}

\* The calls of Command::output
OutputSites ==
    {Site("execute_repair", <<"sh", "-c", "corepack enable">>, None),
     Site("get_current_node_version", <<"node", "--version">>, None),
     Site("detect_conflicts", <<"cmd", "/C", "npm install --dry-run 2>&1">>, None)}

\* CommandResult, and the io::Result<Output> of Command::output
Success == [kind |-> "Success"]
Failed == [kind |-> "Failed"]
TimedOut == [kind |-> "TimedOut"]
SpawnError(detail) == [kind |-> "SpawnError", detail |-> detail]
OutputOk(success) == [kind |-> "Ok", success |-> success]
OutputErr == [kind |-> "Err"]

\* The child process: not started, running, exited with a status and not
\* yet waited for, or reaped.  A child with never_exits stays running until
\* it is killed.
Child(state, never_exits, success) == [state |-> state, never_exits |-> never_exits, success |-> success]

NoChild == Child("none", FALSE, FALSE)

\* The call in progress: where the caller stands, the child, the seconds
\* that wait_timeout has waited, and what the caller got back
Spawned(site, at, child, elapsed, result) ==
    [site |-> site, pc |-> at, child |-> child, elapsed |-> elapsed, result |-> result]

IdleSpawned == Spawned(None, "idle", NoChild, 0, None)

\* run_command_with_timeout up to child.wait_timeout(timeout): spawn fails,
\* or the child runs
RunCommandWithTimeout ==
    /\ launched.pc = "idle"
    /\ \E site \in TimedSites :
           \/ launched' = Spawned(Some(site), "returned", NoChild, 0, Some(SpawnError("Failed to start")))
           \/ \E never_exits \in BOOLEAN :
                  launched' = Spawned(Some(site), "wait_timeout", Child("running", never_exits, FALSE), 0, None)
    /\ UNCHANGED <<resolveVars, rangeVars, hashVars, saveVars, configVars, verifyVars, searchVars, serverVars, pipeVars, projectVars, schemaVars, planVars, execVars, applyVars>>

\* Command::output up to its wait: spawn fails, or the child runs
CommandOutput ==
    /\ launched.pc = "idle"
    /\ \E site \in OutputSites :
           \/ launched' = Spawned(Some(site), "returned", NoChild, 0, Some(OutputErr))
           \/ \E never_exits \in BOOLEAN :
                  launched' = Spawned(Some(site), "wait", Child("running", never_exits, FALSE), 0, None)
    /\ UNCHANGED <<resolveVars, rangeVars, hashVars, saveVars, configVars, verifyVars, searchVars, serverVars, pipeVars, projectVars, schemaVars, planVars, execVars, applyVars>>

\* The child exits by itself, with status zero or not
ChildExits ==
    /\ launched.child.state = "running"
    /\ ~launched.child.never_exits
    /\ \E success \in BOOLEAN :
           launched' = [launched EXCEPT !.child = Child("exited", FALSE, success)]
    /\ UNCHANGED <<resolveVars, rangeVars, hashVars, saveVars, configVars, verifyVars, searchVars, serverVars, pipeVars, projectVars, schemaVars, planVars, execVars, applyVars>>

\* A second passes inside wait_timeout
Second ==
    /\ launched.pc = "wait_timeout"
    /\ launched.elapsed < Unwrap(Unwrap(launched.site).timeout)
    /\ launched' = [launched EXCEPT !.elapsed = @ + 1]
    /\ UNCHANGED <<resolveVars, rangeVars, hashVars, saveVars, configVars, verifyVars, searchVars, serverVars, pipeVars, projectVars, schemaVars, planVars, execVars, applyVars>>

\* wait_timeout returns Ok(Some(status)): wait_with_output, then Success or
\* Failed by the status, or SpawnError when the output cannot be read
WaitTimeoutExited ==
    /\ launched.pc = "wait_timeout"
    /\ launched.child.state = "exited"
    /\ \/ launched' = [launched EXCEPT
                          !.pc = "returned",
                          !.child.state = "reaped",
                          !.result = Some(IF launched.child.success THEN Success ELSE Failed)]
       \/ launched' = [launched EXCEPT
                          !.pc = "returned",
                          !.child.state = "reaped",
                          !.result = Some(SpawnError("Failed to get output"))]
    /\ UNCHANGED <<resolveVars, rangeVars, hashVars, saveVars, configVars, verifyVars, searchVars, serverVars, pipeVars, projectVars, schemaVars, planVars, execVars, applyVars>>

\* wait_timeout returns Ok(None) when the time is up: kill, wait, TimedOut
WaitTimeoutExpired ==
    /\ launched.pc = "wait_timeout"
    /\ launched.child.state = "running"
    /\ launched.elapsed = Unwrap(Unwrap(launched.site).timeout)
    /\ launched' = [launched EXCEPT !.pc = "returned", !.child.state = "reaped", !.result = Some(TimedOut)]
    /\ UNCHANGED <<resolveVars, rangeVars, hashVars, saveVars, configVars, verifyVars, searchVars, serverVars, pipeVars, projectVars, schemaVars, planVars, execVars, applyVars>>

\* wait_timeout returns Err: SpawnError, the child is left as it is
WaitTimeoutFailed ==
    /\ launched.pc = "wait_timeout"
    /\ launched' = [launched EXCEPT !.pc = "returned", !.result = Some(SpawnError("Failed to wait"))]
    /\ UNCHANGED <<resolveVars, rangeVars, hashVars, saveVars, configVars, verifyVars, searchVars, serverVars, pipeVars, projectVars, schemaVars, planVars, execVars, applyVars>>

\* Command::output returns once the child has exited
CommandOutputReturns ==
    /\ launched.pc = "wait"
    /\ launched.child.state = "exited"
    /\ launched' = [launched EXCEPT
                       !.pc = "returned",
                       !.child.state = "reaped",
                       !.result = Some(OutputOk(launched.child.success))]
    /\ UNCHANGED <<resolveVars, rangeVars, hashVars, saveVars, configVars, verifyVars, searchVars, serverVars, pipeVars, projectVars, schemaVars, planVars, execVars, applyVars>>

(***************************************************************************)
(* Configuration applied to the findings: src/config/mod.rs and            *)
(* apply_config_to_results in src/checks/mod.rs                            *)
(***************************************************************************)

\* str::eq_ignore_ascii_case
eq_ignore_ascii_case(a, b) == ToLowercase(a) = ToLowercase(b)

\* From<SeverityOverride> for CheckSeverity
CheckSeverityFrom(override_val) ==
    CASE override_val = "pass" -> "Pass"
      [] override_val = "info" -> "Info"
      [] override_val = "warning" -> "Warning"
      [] override_val = "error" -> "Error"

\* ZenvoConfig: checks.disabled and the map checks.severity_overrides
ZenvoConfig(disabled, severity_overrides) ==
    [disabled |-> disabled, severity_overrides |-> severity_overrides]

\* ZenvoConfig::is_check_disabled
is_check_disabled(config, check_name) ==
    \E name \in config.disabled : eq_ignore_ascii_case(name, check_name)

\* ZenvoConfig::get_severity_override: HashMap::get on the name as it is
get_severity_override(config, check_name) ==
    IF check_name \in DOMAIN config.severity_overrides
    THEN Some(CheckSeverityFrom(config.severity_overrides[check_name]))
    ELSE None

\* apply_config_to_results: filter, then map
apply_config_to_results(list, config) ==
    The({[i \in 1..Len(kept) |->
             The({IF IsSome(severity) THEN [kept[i] EXCEPT !.severity = Unwrap(severity)]
                  ELSE kept[i] :
                      severity \in {get_severity_override(config, kept[i].name)}})] :
             kept \in {SelectSeq(list, LAMBDA r : ~is_check_disabled(config, r.name))}})

\* Findings of a check run, by name
NamedFindings ==
    {CheckResult(Chars("Lockfile exists"), "Error", <<>>, None),
     CheckResult(Chars("Corepack enabled"), "Warning", <<>>, None),
     CheckResult(Chars("Peer dependencies"), "Pass", <<>>, None)}

\* checks.disabled as written in zenvo.toml
DisabledLists ==
    {{}, {Chars("lockfile exists")}, {Chars("Corepack enabled")},
     {Chars("LOCKFILE EXISTS"), Chars("peer dependencies")}}

\* checks.severity_overrides as written in zenvo.toml
SeverityOverrides ==
    {<<>>,
     [key \in {Chars("Lockfile exists")} |-> "warning"],
     [key \in {Chars("lockfile exists"), Chars("Peer dependencies")} |-> "info"],
     [key \in {Chars("corepack enabled")} |-> "error"],
     [key \in {Chars("Corepack enabled"), Chars("peer dependencies")} |-> "pass"]}

IdleConfigured == [results |-> <<>>, config |-> ZenvoConfig({}, <<>>), applied |-> None]

\* if let Some(cfg) = config { results = apply_config_to_results(results, cfg) }
ApplyConfigToResults ==
    /\ configured.applied = None
    /\ configured' = [configured EXCEPT
                          !.applied = Some(apply_config_to_results(configured.results,
                                                                   configured.config))]
    /\ UNCHANGED <<commandVars, resolveVars, rangeVars, hashVars, saveVars, verifyVars, searchVars, serverVars, pipeVars, projectVars, schemaVars, planVars, execVars, applyVars>>

(***************************************************************************)
(* zenvo verify: src/commands/verify.rs and main in src/main.rs            *)
(***************************************************************************)

\* The names of the findings as text, for the comparison with the
\* configuration
NameTexts(list) == [i \in 1..Len(list) |-> [list[i] EXCEPT !.name = Chars(@)]]

\* ZenvoConfig::load_if_exists on zenvo.toml: no file, a file that does not
\* load, or a configuration
ConfigMissing == [state |-> "missing", config |-> None]
ConfigInvalid == [state |-> "invalid", config |-> None]
ConfigFile(config) == [state |-> "loaded", config |-> Some(config)]

\* run_all_checks with Some(config): the findings after
\* apply_config_to_results
run_all_checks_configured(proj, env_lock, category, config) ==
    The({IF checked.ok /\ IsSome(config)
         THEN Ok("run_all_checks",
                 apply_config_to_results(NameTexts(checked.value), Unwrap(config)))
         ELSE checked :
             checked \in {run_all_checks(proj, env_lock, category)}})

\* should_fail in verify::run for every strict, as in the default mode
should_fail_default(strict, warn_only, list) ==
    IF warn_only THEN FALSE
    ELSE \E i \in 1..Len(list) : list[i].severity = "Error"

\* should_fail in verify::run
should_fail(strict, warn_only, list) ==
    IF warn_only THEN FALSE
    ELSE IF strict
    THEN \E i \in 1..Len(list) : list[i].severity \in {"Error", "Warning"}
    ELSE \E i \in 1..Len(list) : list[i].severity = "Error"

\* The exit status of `zenvo verify`: 1 when run returns Err (main) or
\* should_fail holds, else 0; results is None when run returned Err before
\* it had findings
verify_run(strict, warn_only, format, lock_file, config_file, proj) ==
    The({IF ~loaded.ok \/ config_file.state = "invalid"
         THEN [exit |-> 1, results |-> None]
         ELSE The({IF ~checked.ok THEN [exit |-> 1, results |-> None]
                   ELSE IF format # "Json"
                           /\ ~\E i \in 1..Len(checked.value) :
                                   checked.value[i].severity \in {"Error", "Warning"}
                   THEN [exit |-> 0, results |-> Some(checked.value)]
                   ELSE IF should_fail(strict, warn_only, checked.value)
                   THEN [exit |-> 1, results |-> Some(checked.value)]
                   ELSE [exit |-> 0, results |-> Some(checked.value)] :
                       checked \in {run_all_checks_configured(proj, loaded.value, None,
                                                              config_file.config)}}) :
             loaded \in {load(lock_file)}})

\* Projects that verify is run in
VerifyProjects ==
    {Project(PackageJson("valid", e, None), FALSE, {}, n, t, c, TRUE, l, Some(<<>>), Some(<<>>)) :
         e \in {None, Some(">=18.17.0"), Some("lts/*")}, n \in {NodeV16, NodeV20},
         t \in {ToolV10, ToolAbsent}, c \in {"Success", "SpawnError"},
         l \in {Some(<<>>), Some(<<CheckResult("Lockfile exists", "Error", <<>>, None)>>)}}

\* zenvo.toml
ConfigFiles ==
    {ConfigMissing, ConfigInvalid,
     ConfigFile(ZenvoConfig({Chars("engines compliance"), Chars("Lockfile exists")}, <<>>)),
     ConfigFile(ZenvoConfig({Chars("corepack available")},
                            [key \in {Chars("Engines compliance")} |-> "warning"])),
     ConfigFile(ZenvoConfig({}, [key \in {Chars("Corepack available"),
                                          Chars("Node version match")} |-> "error"]))}

Verifying(strict, warn_only, format, config_file, at, list, exit) ==
    [strict |-> strict, warn_only |-> warn_only, format |-> format, config_file |-> config_file,
     pc |-> at, results |-> list, exit |-> exit]

IdleVerifying == Verifying(FALSE, FALSE, "Text", ConfigMissing, "idle", None, 0)

\* Commands::Verify: verify::run and the exit of the process
Verify ==
    /\ verifying.pc = "start"
    /\ \E ran \in {verify_run(verifying.strict, verifying.warn_only, verifying.format,
                              envLockFile, verifying.config_file, project)} :
           verifying' = [verifying EXCEPT !.pc = "exited", !.results = ran.results,
                                          !.exit = ran.exit]
    /\ UNCHANGED <<configVars, commandVars, saveVars, hashVars, rangeVars, resolveVars, searchVars, serverVars, pipeVars, projectVars, schemaVars, planVars, execVars, applyVars>>

(***************************************************************************)
(* Working directory of the MCP server: with_directory and                 *)
(* resolve_conflicts of src/mcp/handlers.rs                                *)
(***************************************************************************)

\* Longest sequence of tool calls the server answers
MaxCalls == 2

\* The directories there are, as the components below the directory the
\* server was started in
Directories == {<<>>, <<"frontend">>, <<"frontend", "client">>}

\* env::set_current_dir(dir) of a relative dir: the directory it names from
\* the working directory, or the error when there is none
set_current_dir(cwd, dir) ==
    IF Append(cwd, dir) \in Directories THEN Some(Append(cwd, dir)) ELSE None

\* What a handler leaves: the working directory, Ok or Err, and whether the
\* call that restores the directory was made
Handled(cwd, result, restored) == [cwd |-> cwd, result |-> result, restored |-> restored]

\* with_directory that returns the error of f at once
with_directory_early_return(path, cwd, f_result, restore_ok) ==
    IF IsSome(path)
    THEN The({IF entered = None THEN Handled(cwd, "Err", FALSE)
              ELSE IF f_result = "Err" THEN Handled(Unwrap(entered), "Err", FALSE)
              ELSE IF restore_ok THEN Handled(cwd, f_result, TRUE)
              ELSE Handled(Unwrap(entered), "Err", TRUE) :
                  entered \in {set_current_dir(cwd, Unwrap(path))}})
    ELSE Handled(cwd, f_result, FALSE)

\* with_directory: f_result is what the handler f returns, restore_ok whether
\* set_current_dir(original_dir) succeeds
with_directory(path, cwd, f_result, restore_ok) ==
    IF IsSome(path)
    THEN The({IF entered = None THEN Handled(cwd, "Err", FALSE)
              ELSE IF restore_ok THEN Handled(cwd, f_result, TRUE)
              ELSE Handled(Unwrap(entered), "Err", TRUE) :
                  entered \in {set_current_dir(cwd, Unwrap(path))}})
    ELSE Handled(cwd, f_result, FALSE)

\* resolve_conflicts: npm_spawned is whether the shell of npm install
\* --dry-run could be started; every return restores the directory and drops
\* the result of doing so
resolve_conflicts(path, cwd, npm_spawned, restore_ok) ==
    IF IsSome(path)
    THEN The({IF entered = None THEN Handled(cwd, "Err", FALSE)
              ELSE Handled(IF restore_ok THEN cwd ELSE Unwrap(entered),
                           IF npm_spawned THEN "Ok" ELSE "Err", TRUE) :
                  entered \in {set_current_dir(cwd, Unwrap(path))}})
    ELSE Handled(cwd, IF npm_spawned THEN "Ok" ELSE "Err", FALSE)

\* The tools that take a path and go through with_directory
DirectoryTools == {"get_environment_status", "sync_environment", "fix_drift", "run_doctor"}

\* The path arguments: none, two directories and one that does not exist
PathArguments == {None, Some("frontend"), Some("client"), Some("missing")}

\* One answered call: the tool, its path, the directory before it, what the
\* handler left and whether the restoring call could succeed
Call(tool, path, before, handled, restore_ok) ==
    [tool |-> tool, path |-> path, before |-> before, handled |-> handled,
     restore_ok |-> restore_ok]

\* The server before its first call
IdleServer == [cwd |-> <<>>, calls |-> <<>>]

\* handle_call_tool on a tool that goes through with_directory
CallDirectoryTool ==
    /\ Len(server.calls) < MaxCalls
    /\ \E tool \in DirectoryTools, path \in PathArguments, f_result \in {"Ok", "Err"},
          restore_ok \in BOOLEAN :
           \E handled \in {with_directory(path, server.cwd, f_result, restore_ok)} :
               server' = [cwd |-> handled.cwd,
                          calls |-> Append(server.calls,
                                           Call(tool, path, server.cwd, handled, restore_ok))]
    /\ UNCHANGED <<searchVars, verifyVars, configVars, commandVars, saveVars, hashVars, rangeVars, resolveVars, pipeVars, projectVars, schemaVars, planVars, execVars, applyVars>>

\* handle_call_tool on resolve_conflicts
CallResolveConflicts ==
    /\ Len(server.calls) < MaxCalls
    /\ \E path \in PathArguments, npm_spawned \in BOOLEAN, restore_ok \in BOOLEAN :
           \E handled \in {resolve_conflicts(path, server.cwd, npm_spawned, restore_ok)} :
               server' = [cwd |-> handled.cwd,
                          calls |-> Append(server.calls,
                                           Call("resolve_conflicts", path, server.cwd, handled,
                                                restore_ok))]
    /\ UNCHANGED <<searchVars, verifyVars, configVars, commandVars, saveVars, hashVars, rangeVars, resolveVars, pipeVars, projectVars, schemaVars, planVars, execVars, applyVars>>

(***************************************************************************)
(* The pipes of a child of run_command_with_timeout: src/utils/mod.rs      *)
(***************************************************************************)

\* What a pipe of the operating system holds before a write to it blocks,
\* in blocks of output
PipeCapacity == 2

\* Most blocks of output a child writes to one of its streams
MaxOutput == 3

\* The child behind Stdio::piped(): how much it still has to write to each
\* stream before it exits, and the status it exits with
PipedChild(state, stdout, stderr, success) ==
    [state |-> state, stdout |-> stdout, stderr |-> stderr, success |-> success]

\* The call: where it stands, the child, what the two pipes hold undrained,
\* the seconds wait_timeout has waited, the result, and whether the child was
\* blocked on a full pipe when it was killed
Piped(at, child, stdout, stderr, elapsed, result, killed_blocked) ==
    [pc |-> at, child |-> child, stdout |-> stdout, stderr |-> stderr, elapsed |-> elapsed,
     result |-> result, killed_blocked |-> killed_blocked]

IdlePiped == Piped("idle", PipedChild("none", 0, 0, FALSE), 0, 0, 0, None, FALSE)

\* The child has output left and every stream it has output for is full
ChildBlocked(call) ==
    /\ call.child.state = "running"
    /\ call.child.stdout + call.child.stderr > 0
    /\ call.child.stdout > 0 => call.stdout = PipeCapacity
    /\ call.child.stderr > 0 => call.stderr = PipeCapacity

\* check_peer_dependencies calls run_command_with_timeout on npm ls: spawn
\* fails, or the child runs with both streams piped
PipeSpawn ==
    /\ piped.pc = "idle"
    /\ \/ piped' = [piped EXCEPT !.pc = "returned", !.result = Some(SpawnError("Failed to start"))]
       \/ \E stdout \in 0..MaxOutput, stderr \in 0..MaxOutput :
              piped' = [piped EXCEPT !.pc = "wait_timeout",
                                     !.child = PipedChild("running", stdout, stderr, FALSE)]
    /\ UNCHANGED <<serverVars, searchVars, verifyVars, configVars, commandVars, saveVars, hashVars, rangeVars, resolveVars, projectVars, schemaVars, planVars, execVars, applyVars>>

\* The child writes a block to a stream whose pipe has room
ChildWrites ==
    /\ piped.child.state = "running"
    /\ \/ /\ piped.child.stdout > 0
          /\ piped.stdout < PipeCapacity
          /\ piped' = [piped EXCEPT !.child.stdout = @ - 1, !.stdout = @ + 1]
       \/ /\ piped.child.stderr > 0
          /\ piped.stderr < PipeCapacity
          /\ piped' = [piped EXCEPT !.child.stderr = @ - 1, !.stderr = @ + 1]
    /\ UNCHANGED <<serverVars, searchVars, verifyVars, configVars, commandVars, saveVars, hashVars, rangeVars, resolveVars, projectVars, schemaVars, planVars, execVars, applyVars>>

\* The child has written everything and exits, with status zero or not
ChildFinishes ==
    /\ piped.child.state = "running"
    /\ piped.child.stdout = 0
    /\ piped.child.stderr = 0
    /\ \E success \in BOOLEAN :
           piped' = [piped EXCEPT !.child.state = "exited", !.child.success = success]
    /\ UNCHANGED <<serverVars, searchVars, verifyVars, configVars, commandVars, saveVars, hashVars, rangeVars, resolveVars, projectVars, schemaVars, planVars, execVars, applyVars>>

\* A second passes inside wait_timeout, which reads neither pipe
PipeSecond ==
    /\ piped.pc = "wait_timeout"
    /\ piped.elapsed < DEFAULT_COMMAND_TIMEOUT
    /\ piped' = [piped EXCEPT !.elapsed = @ + 1]
    /\ UNCHANGED <<serverVars, searchVars, verifyVars, configVars, commandVars, saveVars, hashVars, rangeVars, resolveVars, projectVars, schemaVars, planVars, execVars, applyVars>>

\* wait_timeout returns Ok(Some(status)): wait_with_output drains the pipes,
\* then Success or Failed by the status, or SpawnError when it fails
PipeWaitExited ==
    /\ piped.pc = "wait_timeout"
    /\ piped.child.state = "exited"
    /\ \E read \in BOOLEAN :
           piped' = [piped EXCEPT
                        !.pc = "returned",
                        !.child.state = "reaped",
                        !.stdout = 0,
                        !.stderr = 0,
                        !.result = Some(IF ~read THEN SpawnError("Failed to get output")
                                        ELSE IF piped.child.success THEN Success ELSE Failed)]
    /\ UNCHANGED <<serverVars, searchVars, verifyVars, configVars, commandVars, saveVars, hashVars, rangeVars, resolveVars, projectVars, schemaVars, planVars, execVars, applyVars>>

\* wait_timeout returns Ok(None) when the time is up: kill, wait, TimedOut
PipeWaitExpired ==
    /\ piped.pc = "wait_timeout"
    /\ piped.child.state = "running"
    /\ piped.elapsed = DEFAULT_COMMAND_TIMEOUT
    /\ piped' = [piped EXCEPT !.pc = "returned", !.child.state = "reaped",
                              !.result = Some(TimedOut),
                              !.killed_blocked = ChildBlocked(piped)]
    /\ UNCHANGED <<serverVars, searchVars, verifyVars, configVars, commandVars, saveVars, hashVars, rangeVars, resolveVars, projectVars, schemaVars, planVars, execVars, applyVars>>

\* wait_timeout returns Err: SpawnError, the child is left as it is
PipeWaitFailed ==
    /\ piped.pc = "wait_timeout"
    /\ piped' = [piped EXCEPT !.pc = "returned", !.result = Some(SpawnError("Failed to wait"))]
    /\ UNCHANGED <<serverVars, searchVars, verifyVars, configVars, commandVars, saveVars, hashVars, rangeVars, resolveVars, projectVars, schemaVars, planVars, execVars, applyVars>>

(***************************************************************************)
(* Specifications.  Each one runs one part of the program; the variables   *)
(* of the other parts rest at their idle values.                           *)
(***************************************************************************)

ProjectIdle == project = HealthyProject

PipedIdle == piped = IdlePiped

ServerIdle == server = IdleServer

SearchingIdle == searching = IdleSearching

VerifyingIdle == verifying = IdleVerifying

ConfiguredIdle == configured = IdleConfigured

SpawnedIdle == launched = IdleSpawned

SavingIdle == saving = IdleSaving

HashingIdle == hashing = IdleHashing

RangesIdle == ranges = IdleRanges

ParserIdle == parser = IdleParser

SchemaIdle == envLockFile = FileMissing /\ loadResult = NotCalled

PlanIdle == issues = <<>> /\ context = IdleContext /\ procEnv = IdleProcEnv /\ plan = None

IdleOutput == Output(FALSE, FALSE, <<>>, <<>>)

ExecIdle == action = EnableCorepack /\ outcome = IdleOutput /\ execResult = None

ApplyIdle ==
    /\ caller = Cli(FALSE, FALSE, FALSE, "Text")
    /\ results = None
    /\ pc = "idle"
    /\ idx = 0
    /\ executed = <<>>
    /\ skipped = <<>>
    /\ failed = <<>>
    /\ log = <<>>

\* The snapshot store
SchemaInit ==
    /\ PipedIdle
    /\ ServerIdle
    /\ SearchingIdle
    /\ VerifyingIdle
    /\ ConfiguredIdle
    /\ SpawnedIdle
    /\ SavingIdle
    /\ HashingIdle
    /\ RangesIdle
    /\ ParserIdle
    /\ ProjectIdle
    /\ envLockFile \in EnvLockFiles
    /\ loadResult = NotCalled
    /\ PlanIdle
    /\ ExecIdle
    /\ ApplyIdle

Load ==
    /\ loadResult' = load(envLockFile)
    /\ UNCHANGED <<resolveVars, rangeVars, hashVars, saveVars, commandVars, configVars, verifyVars, searchVars, serverVars, pipeVars, projectVars, envLockFile, planVars, execVars, applyVars>>

LoadIfExists ==
    /\ loadResult' = load_if_exists(envLockFile)
    /\ UNCHANGED <<resolveVars, rangeVars, hashVars, saveVars, commandVars, configVars, verifyVars, searchVars, serverVars, pipeVars, projectVars, envLockFile, planVars, execVars, applyVars>>

SchemaStatus ==
    /\ envLockFile.state = "document"
    /\ loadResult' = Ok("schema_status", Some(schema_status(Unwrap(envLockFile.lock))))
    /\ UNCHANGED <<resolveVars, rangeVars, hashVars, saveVars, commandVars, configVars, verifyVars, searchVars, serverVars, pipeVars, projectVars, envLockFile, planVars, execVars, applyVars>>

SchemaNext == Load \/ LoadIfExists \/ SchemaStatus

SpecSchema == SchemaInit /\ [][SchemaNext]_vars

\* The planner
PlanInit ==
    /\ PipedIdle
    /\ ServerIdle
    /\ SearchingIdle
    /\ VerifyingIdle
    /\ ConfiguredIdle
    /\ SpawnedIdle
    /\ SavingIdle
    /\ HashingIdle
    /\ RangesIdle
    /\ ParserIdle
    /\ ProjectIdle
    /\ SchemaIdle
    /\ ExecIdle
    /\ ApplyIdle
    /\ plan = None
    /\ \/ /\ issues \in SeqsUpTo(CoreFindings, MaxIssues)
          /\ context \in {RepairContext(pm, None, Some("20.11.0")) : pm \in PackageManagers}
          /\ procEnv = IdleProcEnv
       \/ /\ issues \in {<<f>> : f \in AllFindings}
          /\ context \in Contexts
          /\ procEnv \in ProcEnvs

\* generate_repair_plan_with_context, called once on the findings
GenerateRepairPlan ==
    /\ plan = None
    /\ plan' = Some(generate_repair_plan_with_context(issues, context))
    /\ UNCHANGED <<resolveVars, rangeVars, hashVars, saveVars, commandVars, configVars, verifyVars, searchVars, serverVars, pipeVars, projectVars, schemaVars, issues, context, procEnv, execVars, applyVars>>

PlanNext == GenerateRepairPlan

SpecPlan == PlanInit /\ [][PlanNext]_vars

\* The executor
ExecInit ==
    /\ PipedIdle
    /\ ServerIdle
    /\ SearchingIdle
    /\ VerifyingIdle
    /\ ConfiguredIdle
    /\ SpawnedIdle
    /\ SavingIdle
    /\ HashingIdle
    /\ RangesIdle
    /\ ParserIdle
    /\ ProjectIdle
    /\ SchemaIdle
    /\ PlanIdle
    /\ ApplyIdle
    /\ action \in ExecActions
    /\ outcome \in Outputs
    /\ execResult = None

\* execute_repair, called once on the action
ExecuteRepair ==
    /\ execResult = None
    /\ execResult' = Some(execute_repair(action, outcome))
    /\ UNCHANGED <<resolveVars, rangeVars, hashVars, saveVars, commandVars, configVars, verifyVars, searchVars, serverVars, pipeVars, projectVars, schemaVars, planVars, action, outcome, applyVars>>

ExecNext == ExecuteRepair

SpecExec == ExecInit /\ [][ExecNext]_vars

\* The callers that plan and apply
ApplyInit ==
    /\ PipedIdle
    /\ ServerIdle
    /\ SearchingIdle
    /\ VerifyingIdle
    /\ ConfiguredIdle
    /\ SpawnedIdle
    /\ SavingIdle
    /\ HashingIdle
    /\ RangesIdle
    /\ ParserIdle
    /\ loadResult = NotCalled
    /\ PlanIdle
    /\ ExecIdle
    /\ caller \in Callers
    /\ \/ /\ envLockFile = CurrentLockFile
          /\ project \in {[HealthyProject EXCEPT !.check_lockfile = Some(rs)] :
                              rs \in SeqsUpTo(ApplyFindings, MaxResults)}
       \/ /\ envLockFile = CurrentLockFile
          /\ project = [HealthyProject EXCEPT !.check_lockfile = None]
       \/ /\ envLockFile = FileMissing
          /\ project = HealthyProject
    /\ results = None
    /\ pc = "start"
    /\ idx = 0
    /\ executed = <<>>
    /\ skipped = <<>>
    /\ failed = <<>>
    /\ log = <<>>

ApplyNext == RepairRun \/ RepairStep \/ RepairEnd \/ FixDrift \/ FixDriftStep \/ FixDriftEnd

SpecApply == ApplyInit /\ [][ApplyNext]_vars

\* The commands end to end: the project is checked, planned and repaired
E2EInit ==
    /\ PipedIdle
    /\ ServerIdle
    /\ SearchingIdle
    /\ VerifyingIdle
    /\ ConfiguredIdle
    /\ SpawnedIdle
    /\ SavingIdle
    /\ HashingIdle
    /\ RangesIdle
    /\ ParserIdle
    /\ loadResult = NotCalled
    /\ PlanIdle
    /\ ExecIdle
    /\ envLockFile \in {FileMissing, CurrentLockFile}
    /\ \/ /\ caller \in {DoctorCall(None), DoctorCall(Some("Toolchain")),
                          Cli(TRUE, FALSE, FALSE, "Text"), Mcp(None, None)}
          /\ project \in ManifestProjects \cup BrokenProjects
       \/ /\ caller \in {Cli(FALSE, TRUE, TRUE, "Json"), Mcp(Some(TRUE), Some(FALSE))}
          /\ project \in DriftedProjects
    /\ results = None
    /\ pc = "start"
    /\ idx = 0
    /\ executed = <<>>
    /\ skipped = <<>>
    /\ failed = <<>>
    /\ log = <<>>

E2ENext ==
    Doctor \/ RepairRun \/ RepairStep \/ RepairEnd \/ FixDrift \/ FixDriftStep \/ FixDriftEnd

SpecE2E == E2EInit /\ [][E2ENext]_vars

\* The conflict parser on one block
ResolveInit ==
    /\ PipedIdle
    /\ ServerIdle
    /\ SearchingIdle
    /\ VerifyingIdle
    /\ ConfiguredIdle
    /\ SpawnedIdle
    /\ SavingIdle
    /\ HashingIdle
    /\ RangesIdle
    /\ ProjectIdle
    /\ SchemaIdle
    /\ PlanIdle
    /\ ExecIdle
    /\ ApplyIdle
    /\ \E b \in ConflictBlocks :
           parser = [pc |-> "lines", input |-> Some(b), lines |-> BlockLines(b),
                     locals |-> ParserLocals, conflicts |-> None]

ResolveNext == ParseLine \/ ParseEnd

SpecResolve == ResolveInit /\ [][ResolveNext]_vars

\* The range checks of the two resolvers on one version and one range
RangeInit ==
    /\ PipedIdle
    /\ ServerIdle
    /\ SearchingIdle
    /\ VerifyingIdle
    /\ ConfiguredIdle
    /\ SpawnedIdle
    /\ SavingIdle
    /\ HashingIdle
    /\ ProjectIdle
    /\ SchemaIdle
    /\ PlanIdle
    /\ ExecIdle
    /\ ApplyIdle
    /\ ParserIdle
    /\ \E v \in CheckedVersions, r \in CheckedRanges :
           ranges = [version |-> v, range |-> r, cli |-> None, mcp |-> None]

RangeNext == VersionSatisfies \/ MatchesVersionConstraint

SpecRange == RangeInit /\ [][RangeNext]_vars

\* The dependency-tree hash of one installed tree, computed repeatedly
HashInit ==
    /\ PipedIdle
    /\ ServerIdle
    /\ SearchingIdle
    /\ VerifyingIdle
    /\ ConfiguredIdle
    /\ SpawnedIdle
    /\ SavingIdle
    /\ RangesIdle
    /\ ParserIdle
    /\ ProjectIdle
    /\ SchemaIdle
    /\ PlanIdle
    /\ ExecIdle
    /\ ApplyIdle
    /\ \E t \in Trees : hashing = [tree |-> t, listings |-> None, hashes |-> <<>>]

HashNext == ComputeNodeModulesHash

SpecHash == HashInit /\ [][HashNext]_vars

\* Saving a snapshot over no file or over an earlier snapshot
SaveInit ==
    /\ PipedIdle
    /\ ServerIdle
    /\ SearchingIdle
    /\ VerifyingIdle
    /\ ConfiguredIdle
    /\ SpawnedIdle
    /\ HashingIdle
    /\ RangesIdle
    /\ ParserIdle
    /\ ProjectIdle
    /\ SchemaIdle
    /\ PlanIdle
    /\ ExecIdle
    /\ ApplyIdle
    /\ \E file \in {None} \cup {Some(full_content(lock)) : lock \in SavedLocks} :
           saving = Saving(file, None, <<>>, "idle", NotCalled)

SaveNext == SaveCreate \/ SaveWrite \/ SaveInterrupted

SpecSave == SaveInit /\ [][SaveNext]_vars

\* One external command, from the spawn to the return to the caller
CommandInit ==
    /\ PipedIdle
    /\ ServerIdle
    /\ SearchingIdle
    /\ VerifyingIdle
    /\ ConfiguredIdle
    /\ SavingIdle
    /\ HashingIdle
    /\ RangesIdle
    /\ ParserIdle
    /\ ProjectIdle
    /\ SchemaIdle
    /\ PlanIdle
    /\ ExecIdle
    /\ ApplyIdle
    /\ launched = IdleSpawned

CommandNext ==
    \/ RunCommandWithTimeout
    \/ CommandOutput
    \/ ChildExits
    \/ Second
    \/ WaitTimeoutExited
    \/ WaitTimeoutExpired
    \/ WaitTimeoutFailed
    \/ CommandOutputReturns

SpecCommand == CommandInit /\ [][CommandNext]_vars

\* Time passes, a child that exits does so, and a wait that can return does
SpecCommandFair == SpecCommand /\ WF_vars(CommandNext)

\* The findings of a check run and a configuration file
ConfigInit ==
    /\ PipedIdle
    /\ ServerIdle
    /\ SearchingIdle
    /\ VerifyingIdle
    /\ SpawnedIdle
    /\ SavingIdle
    /\ HashingIdle
    /\ RangesIdle
    /\ ParserIdle
    /\ ProjectIdle
    /\ SchemaIdle
    /\ PlanIdle
    /\ ExecIdle
    /\ ApplyIdle
    /\ \E list \in SeqsUpTo(NamedFindings, MaxResults), disabled \in DisabledLists,
          overrides \in SeverityOverrides :
           configured = [results |-> list, config |-> ZenvoConfig(disabled, overrides),
                         applied |-> None]

ConfigNext == ApplyConfigToResults

SpecConfig == ConfigInit /\ [][ConfigNext]_vars

\* zenvo verify with its flags in a project
VerifyInit ==
    /\ PipedIdle
    /\ ServerIdle
    /\ SearchingIdle
    /\ ConfiguredIdle
    /\ SpawnedIdle
    /\ SavingIdle
    /\ HashingIdle
    /\ RangesIdle
    /\ ParserIdle
    /\ loadResult = NotCalled
    /\ PlanIdle
    /\ ExecIdle
    /\ ApplyIdle
    /\ envLockFile \in {FileMissing, CurrentLockFile}
    /\ project \in VerifyProjects
    /\ \E strict \in BOOLEAN, warn_only \in BOOLEAN, format \in {"Text", "Json"},
          config_file \in ConfigFiles :
           verifying = Verifying(strict, warn_only, format, config_file, "start", None, 0)

VerifyNext == Verify

SpecVerify == VerifyInit /\ [][VerifyNext]_vars

\* The conflict parser on a stream of several blocks
StreamInit ==
    /\ PipedIdle
    /\ ServerIdle
    /\ SearchingIdle
    /\ VerifyingIdle
    /\ ConfiguredIdle
    /\ SpawnedIdle
    /\ SavingIdle
    /\ HashingIdle
    /\ RangesIdle
    /\ ProjectIdle
    /\ SchemaIdle
    /\ PlanIdle
    /\ ExecIdle
    /\ ApplyIdle
    /\ \E blocks \in SeqsUpTo(StreamBlocks, MaxBlocks) :
           /\ blocks # <<>>
           /\ parser = [pc |-> "lines", input |-> Some(blocks), lines |-> StreamLines(blocks),
                        locals |-> ParserLocals, conflicts |-> None]

StreamNext == ParseLine \/ ParseEnd

SpecStream == StreamInit /\ [][StreamNext]_vars

\* The resolution searches of the two resolvers on one conflict and one
\* registry document
SearchInit ==
    /\ PipedIdle
    /\ ServerIdle
    /\ VerifyingIdle
    /\ ConfiguredIdle
    /\ SpawnedIdle
    /\ SavingIdle
    /\ HashingIdle
    /\ RangesIdle
    /\ ParserIdle
    /\ ProjectIdle
    /\ SchemaIdle
    /\ PlanIdle
    /\ ExecIdle
    /\ ApplyIdle
    /\ \E conflict \in SearchedConflicts, versions \in RegistryDocuments :
           searching = Searching(conflict, versions, None, None)

SearchNext == FindResolution \/ FindConflictResolution

SpecSearch == SearchInit /\ [][SearchNext]_vars

\* The MCP server answering a sequence of tool calls
ServerInit ==
    /\ PipedIdle
    /\ SearchingIdle
    /\ VerifyingIdle
    /\ ConfiguredIdle
    /\ SpawnedIdle
    /\ SavingIdle
    /\ HashingIdle
    /\ RangesIdle
    /\ ParserIdle
    /\ ProjectIdle
    /\ SchemaIdle
    /\ PlanIdle
    /\ ExecIdle
    /\ ApplyIdle
    /\ server = IdleServer

ServerNext == CallDirectoryTool \/ CallResolveConflicts

SpecServer == ServerInit /\ [][ServerNext]_vars

\* One call of run_command_with_timeout and the output of its child
PipeInit ==
    /\ ServerIdle
    /\ SearchingIdle
    /\ VerifyingIdle
    /\ ConfiguredIdle
    /\ SpawnedIdle
    /\ SavingIdle
    /\ HashingIdle
    /\ RangesIdle
    /\ ParserIdle
    /\ ProjectIdle
    /\ SchemaIdle
    /\ PlanIdle
    /\ ExecIdle
    /\ ApplyIdle
    /\ piped = IdlePiped

PipeNext ==
    \/ PipeSpawn
    \/ ChildWrites
    \/ ChildFinishes
    \/ PipeSecond
    \/ PipeWaitExited
    \/ PipeWaitExpired
    \/ PipeWaitFailed

SpecPipe == PipeInit /\ [][PipeNext]_vars

(***************************************************************************)
(* Properties                                                              *)
(***************************************************************************)

\* The version on disk as a (major, minor) pair, when it parses
FileVersion == parse_version(Unwrap(envLockFile.lock).version)
CurrentPair == Unwrap(parse_version(CURRENT_SCHEMA_VERSION))
MinimumPair == Unwrap(parse_version(MIN_SUPPORTED_SCHEMA_VERSION))

\* The classification as the specification words it
Classified ==
    IF ~IsSome(FileVersion) THEN "Invalid"
    ELSE IF Unwrap(FileVersion) = CurrentPair THEN "Current"
    ELSE IF TupleLess(Unwrap(FileVersion), MinimumPair) THEN "TooOld"
    ELSE IF Unwrap(FileVersion)[1] > CurrentPair[1] THEN "TooNew"
    ELSE "Supported"

\* C1: the status computed for the version on disk is Current when it equals
\* the current version, TooOld below the minimum, TooNew when its major is
\* above the current major, Invalid when unparsable, Supported otherwise.
C1_SchemaClassification ==
    loadResult.op = "schema_status" => Unwrap(loadResult.value).kind = Classified

\* C1 witness: a parsable version, neither current nor too old nor too new,
\* was classified Supported
C1_Witness ==
    /\ loadResult.op = "schema_status"
    /\ IsSome(FileVersion)
    /\ Unwrap(FileVersion) # CurrentPair
    /\ Unwrap(loadResult.value).kind = "Supported"

\* C2: load and load_if_exists return a Snapshot only for a file whose
\* schemaVersion is Current or Supported; for TooOld, TooNew and Invalid
\* they return an error carrying no Snapshot.
C2_LoadOnlyCompatible ==
    loadResult.op \in {"load", "load_if_exists"} =>
        /\ (loadResult.ok /\ IsSome(loadResult.value)) =>
               /\ envLockFile.state = "document"
               /\ Classified \in {"Current", "Supported"}
               /\ Unwrap(loadResult.value) = Unwrap(envLockFile.lock)
        /\ (envLockFile.state = "document" /\ Classified \in {"TooOld", "TooNew", "Invalid"}) =>
               (~loadResult.ok /\ loadResult.value = None)

\* C2 witness: a load of a too-old document ended in an error
C2_Witness ==
    /\ loadResult.op = "load"
    /\ envLockFile.state = "document"
    /\ Classified = "TooOld"
    /\ ~loadResult.ok

Safe(a) == a.is_safe
Review(a) == ~a.is_safe

\* C3: in the returned plan every Safe action precedes every needs-review
\* action, and each group keeps the order of the findings that produced it.
C3_SafeFirstStable ==
    IsSome(plan) =>
        LET p == Unwrap(plan)
            produced == CollectActions(issues, context)
        IN  /\ \A i \in 1..Len(p) : \A j \in (i + 1)..Len(p) : ~(Review(p[i]) /\ Safe(p[j]))
            /\ SelectSeq(p, Safe) = SelectSeq(produced, Safe)
            /\ SelectSeq(p, Review) = SelectSeq(produced, Review)

\* C3 witness: a needs-review finding came before two different Safe findings
\* and the plan lists the two Safe actions, in finding order, then the review
C3_Witness ==
    /\ IsSome(plan)
    /\ Len(issues) = 3
    /\ Len(Unwrap(plan)) = 3
    /\ issues[1].name = "Lockfile exists"
    /\ issues[2].name = "node_modules exists"
    /\ issues[3].name = "Corepack available"
    /\ Unwrap(plan)[1].command = install_command(context)
    /\ Unwrap(plan)[2].command = <<"corepack", "enable">>
    /\ Review(Unwrap(plan)[3])

\* C4: a finding whose name has no table entry yields exactly one action, a
\* needs-review action whose command is the fix text verbatim, when it has a
\* suggested fix, and no action when it has none.
C4_FallbackAction ==
    (IsSome(plan) /\ Len(issues) = 1 /\ issues[1].name \notin TableNames) =>
        IF IsSome(issues[1].suggested_fix)
        THEN /\ Len(Unwrap(plan)) = 1
             /\ Unwrap(plan)[1].command = Unwrap(issues[1].suggested_fix)
             /\ Review(Unwrap(plan)[1])
        ELSE Unwrap(plan) = <<>>

\* C4 witness: the engines finding alone gave one action carrying its fix
C4_Witness ==
    /\ IsSome(plan)
    /\ Len(issues) = 1
    /\ issues[1].name = "Engines compliance"
    /\ issues[1].suggested_fix = Some(EnginesFix)
    /\ Len(Unwrap(plan)) = 1
    /\ Unwrap(plan)[1].command = EnginesFix

\* The manifest requires >=18.17.0, node 16.0.0 is installed, no env.lock
EngineScenario ==
    /\ project.package_json.state = "valid"
    /\ project.package_json.engines_node = Some(">=18.17.0")
    /\ project.node = NodeV16
    /\ envLockFile = FileMissing

\* A caller that runs the checks and then the planner has run
Planning ==
    /\ \/ caller.kind = "cli" /\ (caller.plan \/ caller.apply)
       \/ caller.kind = "mcp"
    /\ pc # "start"

ErrorFindings == SelectSeq(Unwrap(results), LAMBDA r : r.severity = "Error")

\* The command switches the runtime through a version manager
RuntimeSwitch(a) ==
    \/ Contains(a.command, <<"nvm", "use">>)
    \/ Contains(a.command, <<"fnm", "use">>)
    \/ Contains(a.command, <<"volta", "pin">>)

\* C5: with a manifest that requires >=18.17.0, runtime 16.0.0 installed and
\* no snapshot, running the checks and then the planner ends without a
\* fatal error, with exactly one Error finding, "Engines compliance", and a
\* plan of exactly one action, which is Safe and switches the runtime.
C5_EnginesEndToEnd ==
    (EngineScenario /\ Planning) =>
        /\ pc \in {"loop", "done"}
        /\ IsSome(results)
        /\ Len(ErrorFindings) = 1
        /\ ErrorFindings[1].name = "Engines compliance"
        /\ IsSome(plan)
        /\ Len(Unwrap(plan)) = 1
        /\ Unwrap(plan)[1].is_safe
        /\ RuntimeSwitch(Unwrap(plan)[1])

\* The is_safe values the planner gives a finding over all contexts
SafetyOverContexts(issue) ==
    {Unwrap(issue_to_action_with_context(issue, c)).is_safe :
         c \in {d \in Contexts : IsSome(issue_to_action_with_context(issue, d))}}

CacheNames == {"npm cache integrity", "Cache corrupted"}

\* C6 as claimed: for any finding name the planner assigns the same is_safe
\* under every package manager, version manager and target runtime version.
C6_SafetyIgnoresContext ==
    (IsSome(plan) /\ Len(issues) = 1 /\ Len(Unwrap(plan)) = 1) =>
        SafetyOverContexts(issues[1]) = {Unwrap(plan)[1].is_safe}

\* C6 amended: the same is_safe under every context for every finding name
\* but the two cache names; for those the action is needs-review under bun
\* and Safe under every other package manager.
C6_SafetyFixedButCache ==
    (IsSome(plan) /\ Len(issues) = 1 /\ Len(Unwrap(plan)) = 1) =>
        IF issues[1].name \in CacheNames
        THEN Unwrap(plan)[1].is_safe = (context.package_manager # "bun")
        ELSE SafetyOverContexts(issues[1]) = {Unwrap(plan)[1].is_safe}

\* C6 witness: a cache finding planned under bun is needs-review
C6_Witness ==
    /\ IsSome(plan)
    /\ Len(issues) = 1
    /\ issues[1].name = "Cache corrupted"
    /\ context.package_manager = "bun"
    /\ Len(Unwrap(plan)) = 1
    /\ Review(Unwrap(plan)[1])

\* A WARN line or a deprecation notice, as the executor recognizes them
WarnOrDeprecation(line) ==
    \/ (Len(line) >= 2 /\ line[1] = "warning")
    \/ (Len(line) >= 2 /\ line[1] = "npm" /\ line[2] = "WARN")
    \/ \E i \in 1..Len(line) : line[i] = "deprecated"

ErrorToken(text) == \E i \in 1..Len(text) : text[i] \in {"error", "ERR!"}

\* The shell ran the action's command and exited non-zero
NonZeroExit ==
    /\ IsSome(execResult)
    /\ Unwrap(execResult).ran
    /\ outcome.spawned
    /\ ~outcome.success

StderrLines == Lines(outcome.stderr)

\* C7: a command that exits non-zero is a success when stderr consists
\* entirely of WARN/deprecation lines and neither stderr nor stdout holds an
\* error token.
C7_WarningsOnlyIsSuccess ==
    (/\ NonZeroExit
     /\ \A i \in 1..Len(StderrLines) : WarnOrDeprecation(StderrLines[i])
     /\ ~ErrorToken(outcome.stderr)
     /\ ~ErrorToken(outcome.stdout)) => Unwrap(execResult).ok

\* C7 witness: a non-zero exit with a deprecation notice and a WARN line on
\* stderr was returned as success
C7_Witness ==
    /\ NonZeroExit
    /\ Len(StderrLines) = 2
    /\ \E i \in 1..2 : \E j \in 1..Len(StderrLines[i]) : StderrLines[i][j] = "deprecated"
    /\ \A i \in 1..2 : WarnOrDeprecation(StderrLines[i])
    /\ ~ErrorToken(outcome.stderr)
    /\ ~ErrorToken(outcome.stdout)
    /\ Unwrap(execResult).ok

\* A line the executor recognizes as benign: blank, WARN or deprecation
Benign(line) == line = <<>> \/ WarnOrDeprecation(line)

\* C8: a non-zero exit is a success only if every stderr line matches a
\* recognized benign pattern and stdout holds no explicit error marker; every
\* other non-zero exit is returned as a failure.
C8_ToleratedOnlyIfBenign ==
    NonZeroExit =>
        (Unwrap(execResult).ok <=>
            /\ \A i \in 1..Len(StderrLines) : Benign(StderrLines[i])
            /\ ~ErrorToken(outcome.stdout))

\* C8 witness: stderr held only WARN lines but stdout held an error marker,
\* and the non-zero exit was returned as a failure carrying stderr
C8_Witness ==
    /\ NonZeroExit
    /\ Len(StderrLines) >= 1
    /\ \A i \in 1..Len(StderrLines) : WarnOrDeprecation(StderrLines[i])
    /\ ErrorToken(outcome.stdout)
    /\ ~Unwrap(execResult).ok
    /\ Unwrap(execResult).err = outcome.stderr

\* The caller reached its loop over the plan
Applying ==
    /\ IsSome(plan)
    /\ pc \in {"loop", "done", "prompt_error"}
    /\ \/ caller.kind = "cli" /\ caller.apply
       \/ caller.kind = "mcp" /\ UnwrapOr(caller.execute, FALSE)

Count(seq, d) == Cardinality({i \in 1..Len(seq) : seq[i] = d})

FailedDescriptions == [i \in 1..Len(failed) |-> failed[i].action]

PlanDescriptions == [i \in 1..Len(Unwrap(plan)) |-> Unwrap(plan)[i].description]

Described == {PlanDescriptions[i] : i \in 1..Len(PlanDescriptions)}

\* C9: the actions are attempted one at a time in plan order, a failed action
\* does not end the run (the loop goes on to the next position), and when the
\* run is done every action of the plan is in exactly one of executed,
\* skipped and failed.
C9_SequentialAndCollected ==
    Applying =>
        /\ \A k \in 1..Len(log) :
              /\ log[k].idx = k
              /\ log[k].description = PlanDescriptions[k]
        /\ Len(executed) + Len(skipped) + Len(failed) = Len(log)
        /\ pc = "loop" => idx = Len(log) + 1
        /\ pc = "done" =>
              /\ Len(log) = Len(Unwrap(plan))
              /\ \A d \in Described :
                    Count(executed, d) + Count(skipped, d) + Count(FailedDescriptions, d)
                        = Count(PlanDescriptions, d)

\* C9 witness: the first action of a plan failed, the second was still run
\* and succeeded, and the run is done
C9_Witness ==
    /\ Applying
    /\ pc = "done"
    /\ Len(log) = 2
    /\ log[1].what = "failed"
    /\ log[2].what = "executed"
    /\ Len(failed) = 1
    /\ Len(executed) = 1

\* C10: with `zenvo repair --apply`, in every output mode and with or without
\* -y, a needs-review action is executed only after it was explicitly
\* confirmed, and is recorded as skipped otherwise.
C10_ReviewNeedsConfirmation ==
    (caller.kind = "cli" /\ caller.apply) =>
        \A k \in 1..Len(log) :
            ~log[k].is_safe =>
                IF log[k].confirmed THEN log[k].what \in {"executed", "failed"}
                ELSE log[k].what = "skipped"

\* The block the parser was given, and what it returned
ParsedBlock == Unwrap(parser.input)
ParsedConflicts == Unwrap(parser.conflicts)

\* C11: for a stream holding one conflict block that ends with its
\* terminator line, the parser returns exactly one conflict, with package P,
\* currentVersion c, conflictingDependency T and requiredRange R, also when P
\* or T is a scoped name that contains `@`.
C11_OneConflictPerBlock ==
    (parser.pc = "done" /\ ParsedBlock.terminated) =>
        /\ Len(ParsedConflicts) = 1
        /\ ParsedConflicts[1].package = Chars(ParsedBlock.package)
        /\ ParsedConflicts[1].current_version = Chars(ParsedBlock.current)
        /\ ParsedConflicts[1].conflicting_dep = Chars(ParsedBlock.target)
        /\ ParsedConflicts[1].required_range = Chars(ParsedBlock.range)

\* C11 witness: a terminated block with a scoped package, a scoped target and
\* a suggested version was parsed to one conflict
C11_Witness ==
    /\ parser.pc = "done"
    /\ ParsedBlock.terminated
    /\ ParsedBlock.package = "@types/react"
    /\ ParsedBlock.target = "@shopify/react-native-skia"
    /\ IsSome(ParsedBlock.suggested)
    /\ Len(ParsedConflicts) = 1
    /\ ParsedConflicts[1].package = Chars("@types/react")

\* A target as a (major, minor, patch) triple
TargetTriple(t) == <<t[1], t[2], IF Len(t) >= 3 THEN t[3] ELSE 0>>

\* What the range grammar says of a comparator and a version
Satisfies(part, v) ==
    LET x == TargetTriple(part.target)
    IN  CASE part.op = "=" -> v = x
          [] part.op = ">" -> VersionLess(x, v)
          [] part.op = ">=" -> ~VersionLess(v, x)
          [] part.op = "<" -> VersionLess(v, x)
          [] part.op = "<=" -> ~VersionLess(x, v)
          [] part.op = "^" -> IF x[1] > 0 THEN v[1] = x[1] /\ ~VersionLess(v, x)
                              ELSE v[1] = 0 /\ v[2] = x[2] /\ v[3] >= x[3]
          [] part.op = "~" -> v[1] = x[1] /\ v[2] = x[2] /\ v[3] >= x[3]

\* C12: version_satisfies accepts a version for `>=X` iff it is not below X,
\* for `<X` iff it is strictly below X, for `^X` with major > 0 iff it has the
\* same major and is not below X, for `^0.Y.Z` iff it has major 0, minor Y and
\* patch >= Z, for `~X.Y.Z` iff it has the same major and minor and patch >= Z,
\* and for a space-separated list iff it satisfies every part.
C12_RangeCheck ==
    IsSome(ranges.cli) =>
        /\ (ranges.range.kind = "comparator" /\ ranges.range.op \in {">=", "<", "^", "~"}) =>
               Unwrap(ranges.cli) = Satisfies(ranges.range, ranges.version)
        /\ ranges.range.kind = "and" =>
               Unwrap(ranges.cli) = \A i \in 1..Len(ranges.range.parts) :
                                        Satisfies(ranges.range.parts[i], ranges.version)

\* C12 witness: 1.1.0 was accepted for `>=1.1 <1.1.1`
C12_Witness ==
    /\ ranges.version = <<1, 1, 0>>
    /\ ranges.range = AllOf(<<Comparator(">=", <<1, 1>>), Comparator("<", <<1, 1, 1>>)>>)
    /\ ranges.cli = Some(TRUE)

\* C13: version_satisfies implements the remaining comparators: `>X` holds
\* iff the version is strictly above X, `<=X` iff it is below or equal to X,
\* and a bare version X iff the version's triple equals X.
C13_RemainingComparators ==
    (/\ IsSome(ranges.cli)
     /\ ranges.range.kind = "comparator"
     /\ ranges.range.op \in {">", "<=", "="}) =>
        Unwrap(ranges.cli) = Satisfies(ranges.range, ranges.version)

\* C14: a ||-separated range is satisfied as soon as one of its branches is
\* satisfied, and a range all of whose branches are unrecognized is not
\* reported as not satisfied; for both resolvers.
C14_AnyBranch ==
    ranges.range.kind = "or" =>
        \A answer \in {ranges.cli, ranges.mcp} :
            IsSome(answer) =>
                /\ (\E i \in 1..Len(ranges.range.parts) :
                        /\ ranges.range.parts[i].kind = "comparator"
                        /\ Satisfies(ranges.range.parts[i], ranges.version)) =>
                       Unwrap(answer)
                /\ (\A i \in 1..Len(ranges.range.parts) : ranges.range.parts[i].kind = "word") =>
                       Unwrap(answer)

\* The manifest ranges that the range grammar builds
GrammarRanges ==
    {">=18.17.0", ">=16", "^20", "~16.0", "<18", ">=16.0.0 <21.0.0", "16 || >=20", "^16 || ^20"}

\* The engines finding of the check run, if there is one
EnginesFindings == SelectSeq(Unwrap(results), LAMBDA r : r.name = "Engines compliance")

\* C15: the engines compliance check evaluates every manifest range of the
\* grammar, compound ranges such as `>=A <B` and `^A || ^B` included, to
\* satisfied (Pass) or not satisfied (Error); the advisory Warning is for
\* unparsable syntax only.
C15_GrammarRangesEvaluated ==
    (/\ caller.kind = "doctor"
     /\ pc = "done"
     /\ project.package_json.state = "valid"
     /\ IsSome(project.package_json.engines_node)
     /\ Unwrap(project.package_json.engines_node) \in GrammarRanges) =>
        /\ Len(EnginesFindings) = 1
        /\ EnginesFindings[1].severity \in {"Pass", "Error"}

\* C16: for a fixed installed tree the hash is the same whatever order the
\* listings of node_modules, of the scope directories and of the pnpm store
\* return their entries in, and recomputing it returns the same value.
C16_HashOrderInvariant ==
    \A i, j \in 1..Len(hashing.hashes) : hashing.hashes[i] = hashing.hashes[j]

\* C17: from the moment save starts, and also when the process is
\* interrupted in the middle of it, the file at the target path is the
\* complete file of before or the complete new document with its header.
C17_AtomicSave ==
    saving.pc # "idle" => saving.file \in {saving.previous, Some(saving.content)}

\* C18: every external command the engine starts comes back to its caller:
\* no call waits forever, also not on a child process that never exits.
C18_EveryCommandReturns == <>(launched.pc = "returned")

\* The keys of the override map that equal a name ignoring case
KeysFor(name) ==
    {key \in DOMAIN configured.config.severity_overrides : eq_ignore_ascii_case(key, name)}

\* The findings whose name no disabled entry equals ignoring case
KeptFindings ==
    SelectSeq(configured.results,
              LAMBDA r : ~\E name \in configured.config.disabled :
                              ToLowercase(name) = ToLowercase(r.name))

\* C19: applying the configuration drops the findings whose name equals a
\* disabled entry ignoring case, and gives every finding that is kept the
\* severity of the override key that equals its name ignoring case.
C19_CaseInsensitiveConfig ==
    IsSome(configured.applied) =>
        /\ Len(Unwrap(configured.applied)) = Len(KeptFindings)
        /\ \A i \in 1..Len(KeptFindings) :
               /\ Unwrap(configured.applied)[i].name = KeptFindings[i].name
               /\ KeysFor(KeptFindings[i].name) # {} =>
                      \E key \in KeysFor(KeptFindings[i].name) :
                          Unwrap(configured.applied)[i].severity =
                              CheckSeverityFrom(configured.config.severity_overrides[key])
               /\ KeysFor(KeptFindings[i].name) = {} =>
                      Unwrap(configured.applied)[i] = KeptFindings[i]

\* C20: a check run ends as a whole without findings only when the manifest
\* cannot be read or the runtime cannot be detected; a failure of any other
\* probe, such as the version query of the package manager, leaves the run
\* going.
C20_OnlyManifestOrRuntimeAborts ==
    pc = "checks_error" =>
        \/ project.package_json.state # "valid"
        \/ ~detect_node_version(project).ok

\* The findings verify decides on: those of the check run after the
\* configuration was applied, none when the run gave none
VerifyFindings == IF IsSome(verifying.results) THEN Unwrap(verifying.results) ELSE <<>>

VerifyHas(severities) ==
    \E i \in 1..Len(VerifyFindings) : VerifyFindings[i].severity \in severities

\* Exit 1 as documented: never with --warn, else with --strict on an Error
\* or a Warning, else on an Error
DocumentedFailure ==
    /\ ~verifying.warn_only
    /\ IF verifying.strict THEN VerifyHas({"Error", "Warning"}) ELSE VerifyHas({"Error"})

C22_FixDriftGuarded ==
    caller.kind = "mcp" =>
        /\ caller.execute # Some(TRUE) =>
               /\ log = <<>>
               /\ executed = <<>>
               /\ failed = <<>>
        /\ caller.safe_only # Some(FALSE) =>
               \A k \in 1..Len(log) :
                   ~log[k].is_safe =>
                       /\ log[k].what = "skipped"
                       /\ \E j \in 1..Len(skipped) : skipped[j] = log[k].description

\* C22 witness: fix_drift with execute = true and safe_only left out has run
\* a Safe action and skipped a needs-review one
C22_Witness ==
    /\ caller.kind = "mcp"
    /\ caller.execute = Some(TRUE)
    /\ caller.safe_only = None
    /\ pc = "done"
    /\ \E k \in 1..Len(log) : log[k].is_safe /\ log[k].what = "executed"
    /\ \E k \in 1..Len(log) : ~log[k].is_safe /\ log[k].what = "skipped"

\* The blocks of the stream the parser was given
StreamBlocksGiven == Unwrap(parser.input)

\* C23: the requiredRange of every conflict the parser returns is empty or
\* is the range of a peer line of the stream that names the conflict's own
\* package; it is never a range captured for another package.
C23_NoCrossTalk ==
    parser.pc = "done" =>
        \A i \in 1..Len(Unwrap(parser.conflicts)) :
            \/ Unwrap(parser.conflicts)[i].required_range = <<>>
            \/ \E package \in {"react", "@types/react"} :
                   /\ Unwrap(parser.conflicts)[i].package = Chars(package)
                   /\ Unwrap(parser.conflicts)[i].required_range = Chars(PeerRange(package))

\* C24: whatever the stream, with several blocks or several terminator
\* lines, no two conflicts the parser returns agree on package,
\* currentVersion, conflictingDependency and requiredRange.
C24_NoDuplicateRecords ==
    parser.pc = "done" =>
        \A i, j \in 1..Len(Unwrap(parser.conflicts)) :
            i # j =>
                \/ Unwrap(parser.conflicts)[i].package # Unwrap(parser.conflicts)[j].package
                \/ Unwrap(parser.conflicts)[i].current_version
                       # Unwrap(parser.conflicts)[j].current_version
                \/ Unwrap(parser.conflicts)[i].conflicting_dep
                       # Unwrap(parser.conflicts)[j].conflicting_dep
                \/ Unwrap(parser.conflicts)[i].required_range
                       # Unwrap(parser.conflicts)[j].required_range

\* The blocks of the stream that have a Found line
FoundBlocks == SelectSeq(StreamBlocksGiven, LAMBDA b : IsSome(b.package))

\* The installed package of the last Found line of the stream
LastFound == Chars(Unwrap(FoundBlocks[Len(FoundBlocks)].package))

\* The conflicts recorded by the terminator lines, before the end of input
RecordedConflicts == parser.locals.conflicts

\* The input ended inside an ERESOLVE block without terminator, a Found line
\* captured an installed package, and no conflict of it is recorded
OpenAtEnd ==
    /\ \E i \in 1..Len(StreamBlocksGiven) : StreamBlocksGiven[i].header
    /\ StreamBlocksGiven[Len(StreamBlocksGiven)].terminators = 0
    /\ FoundBlocks # <<>>
    /\ \A i \in 1..Len(RecordedConflicts) : RecordedConflicts[i].package # LastFound

SearchCandidates ==
    {m \in {Unwrap(searching.versions)[i] : i \in 1..Len(Unwrap(searching.versions))} :
        Contains(m.key, <<"-">>) => Contains(searching.conflict.current_version, <<"-">>)}

\* The answer is the member of the set with the greatest (major, minor,
\* patch), or no resolution when the set is empty
AnswersNewestOf(answer, members) ==
    IF members = {} THEN answer = None
    ELSE /\ IsSome(answer)
         /\ \E m \in members :
                /\ Unwrap(answer).suggested_version = m.key
                /\ \A n \in members : compare_versions(n.key, m.key) # "Greater"

\* C26: for a conflict with a requiredRange, each resolver returns the
\* version with the greatest (major, minor, patch) among the candidates of the
\* registry that satisfy the range, and never a version outside the range.
C26_NewestInRange ==
    (searching.versions # None /\ searching.conflict.required_range # <<>>) =>
        /\ IsSome(searching.cli) =>
               AnswersNewestOf(Unwrap(searching.cli),
                   {m \in SearchCandidates :
                       version_satisfies(m.key, searching.conflict.required_range)})
        /\ IsSome(searching.mcp) =>
               AnswersNewestOf(Unwrap(searching.mcp),
                   {m \in SearchCandidates :
                       matches_version_constraint(m.key, searching.conflict.required_range)})

\* C27: for a conflict without requiredRange, each resolver returns the newest
\* candidate whose peer requirement on the conflicting dependency accepts the
\* installed version or which declares no requirement on it, and no resolution
\* when there is no such candidate.
C27_NewestCompatible ==
    (searching.versions # None /\ searching.conflict.required_range = <<>>) =>
        /\ IsSome(searching.cli) =>
               AnswersNewestOf(Unwrap(searching.cli),
                   {m \in SearchCandidates :
                       \/ m.requirement = None
                       \/ version_satisfies(searching.conflict.current_version,
                                            Unwrap(m.requirement))})
        /\ IsSome(searching.mcp) =>
               AnswersNewestOf(Unwrap(searching.mcp),
                   {m \in SearchCandidates :
                       \/ m.requirement = None
                       \/ matches_version_constraint(searching.conflict.current_version,
                                                     Unwrap(m.requirement))})

\* The manual-instructions placeholders of the planner: what it plans for
\* duplicate lockfiles and for a missing npm
PlannedPlaceholders ==
    {Unwrap(issue_to_action_with_context(CheckResult(name, "Error", <<>>, None), ctx)) :
        name \in {"Single lockfile", "npm accessible"}, ctx \in Contexts}

\* C28: applying an action whose command is a manual-instructions placeholder
\* of the planner starts no shell and returns success, whatever the shell
\* would have answered; every other action is handed to the shell, which
\* runs it whenever it can be spawned, and a shell that cannot be spawned is
\* an error.
C28_PlaceholdersNotRun ==
    IsSome(execResult) =>
        IF action \in PlannedPlaceholders
        THEN Unwrap(execResult) = ExecOk(FALSE)
        ELSE /\ Unwrap(execResult).ran = outcome.spawned
             /\ ~outcome.spawned => ~Unwrap(execResult).ok

\* C28 witness: the duplicate-lockfile placeholder was applied where the
\* shell would have failed with an error on stderr, and it succeeded unrun
C28_Witness ==
    /\ IsSome(execResult)
    /\ action = RemoveLockfiles
    /\ action \in PlannedPlaceholders
    /\ outcome.spawned
    /\ ~outcome.success
    /\ Contains(outcome.stderr, <<"ERR!">>)
    /\ Unwrap(execResult) = ExecOk(FALSE)

C30_NoTimeoutOnBlockedChild ==
    piped.result = Some(TimedOut) => ~piped.killed_blocked

====
